---- MODULE Spec2Model ----
(***************************************************************************)
(* Jump Return: the highlight/popup lifecycle of content.js and the        *)
(* chrome.storage.local persistence layer of storage.js, as state          *)
(* machines.                                                               *)
(*                                                                         *)
(*   Spec      : user gestures, Response Watch polls, host page turns and  *)
(*               the Store writes they start (content.js).                 *)
(*   SpecStore : the Store operations of storage.js, called in any order   *)
(*               and interleaved at their await points.                    *)
(*   SpecSend  : Spec on a page without a chat input.                      *)
(*   SpecNav   : navigation and the restore of highlights.                 *)
(*   SpecLeave : Response Watches that outlive a navigation.               *)
(*   SpecDom   : highlightRange and removeSourceHighlight over a DOM.      *)
(*   SpecResize: the edge drags of addResizeHandlers.                      *)
(*   SpecWalk  : the leafWalker of extractSentenceInContainer over trees.  *)
(*   SpecFind  : findTextRange over the text nodes under a root.           *)
(*   SpecExtract: extractSentenceInContainer and renderSentenceContext     *)
(*               over containers of blocks and the Ranges in them.         *)
(***************************************************************************)
EXTENDS Integers, Sequences, FiniteSets, TLC

(***************************************************************************)
(* Bounds of the model.                                                    *)
(***************************************************************************)
MaxIds == 3          \* highlight ids that crypto.randomUUID() hands out
MaxInFlight == 2     \* Store operations suspended at an await at one time
MaxUrl == 2          \* distinct page locations
MaxCalls == 4        \* Store calls made by the callers of SpecStore
MaxTurns == 6        \* conversation turns the host page renders
MaxWatch == 3        \* Response Watches started (sends)
MaxPopups == 3       \* popup elements created
MaxGroups == 3       \* non-empty wrapper arrays highlightRange returns
maxAttempts == 2     \* polls before a watch times out (200 in the source)
MaxNav == 1          \* history changes the host page makes
MaxRestore == 2      \* tryRestore closures created (fetches of restoreHighlights that found work)
restoreMaxAttempts == 2  \* runs of one tryRestore closure (30 in the source)
MaxNodes == 3        \* text nodes of the container highlightRange is given
MaxLen == 2          \* characters of one text node
MaxDrags == 3        \* edge drags (mousedown on an edge) of SpecResize
MaxPieces == 3       \* pieces of inline content of the one block of a container
MaxItems == 3        \* LI elements of a list
MaxElems == 4        \* elements inside the container of the leafWalker
MaxSearch == 3       \* characters of the text findTextRange is asked for
MaxTextNodes == 4    \* text nodes under the root findTextRange is given

NoId == 0            \* null id / null parentId
NoPopup == 0         \* null popup element
Null == 0            \* null (or empty, falsy) string value

Ids == 1..MaxIds
Urls == 1..MaxUrl
Slots == 1..MaxInFlight
Watches == 1..MaxWatch
Popups == 1..MaxPopups
Groups == 1..MaxGroups
Restores == 1..MaxRestore

VARIABLES
    store,      \* chrome.storage.local["jumpreturn_highlights"]: sequence of records
    ctxValid,   \* chrome.runtime.id is still defined
    ops,        \* Store operations suspended at an await, by slot
    nextId,     \* next id crypto.randomUUID() returns
    expected,   \* ids saved by a call that returned and not deleted by a later one
    ret,        \* outcome of the Store call that returned last
    calls,      \* Store calls made so far
    turns,      \* host page: the conversation turns, "user" or "ai", in order
    generating, \* host page: the stop button is present
    hidden,     \* turns carrying the jr-hidden class
    popups,     \* popup elements: mounted or not, what they show
    spans,      \* wrapper arrays made by highlightRange: attributes of their spans
    watches,    \* the closures of waitForResponse
    activePopup,
    activeSourceHighlights,
    activeHighlightId,
    popupStack,
    completedHighlights,
    cancelResponseWatch,
    lastKnownUrl,
    restoreTimer, \* the tryRestore closure whose timer id the global holds, 0 for null
    scheduled,    \* pending setTimeout(restoreHighlights, 1000) timers
    restores,     \* the tryRestore closures of restoreHighlights
    location,     \* host page: location.href
    page,         \* host page: the conversation whose turns are rendered, 0 for none
    chatInput,    \* host page: the chat input and its send button can be found
    navs,         \* history changes made so far
    nodes,        \* host page: the text nodes of a container, in document order
    range,        \* the Range handed to highlightRange
    wrappers,     \* the array highlightRange returned
    wrapPhase,    \* "none", "ready", "wrapped", "failed", "threw", "unwrapped"
    textBefore,   \* textContent of the container before highlightRange ran
    innerWidth,   \* window.innerWidth
    popupStyle,   \* the popup under the mouse: style.width, style.left, _jrChained
    drag,         \* the closure of an edge drag: edge, startWidth, startLeft
    customPopupWidthL1,
    customPopupWidthChained,
    drags,        \* edge drags started so far
    container,    \* host page: the blocks of the element a selection is made in
    selRange,     \* selection.getRangeAt(0)
    selText,      \* selection.toString().trim()
    context,      \* what extractSentenceInContainer returned and pushed to blockTypes
    rendered,     \* what the context blockquote of the popup was filled with
    stage,        \* "none", "ready", "extracted", "rendered"
    elements,     \* host page: the elements inside a container, in document order
    walkRange,    \* the Range handed to extractSentenceInContainer over elements
    leafBlocks,   \* selectedBlocks: the elements the leafWalker loop pushed
    walkStage,    \* "none", "ready", "walked"
    textNodes,    \* host page: the data of the text nodes under a root, in order
    searchText,   \* the text findTextRange is asked for
    foundRange,   \* what findTextRange returned
    findStage     \* "none", "ready", "found"

storeVars == <<store, ctxValid, ops, nextId, expected, ret, calls>>
domVars == <<nodes, range, wrappers, wrapPhase, textBefore>>
resizeVars == <<innerWidth, popupStyle, drag, customPopupWidthL1,
                customPopupWidthChained, drags>>
extractVars == <<container, selRange, selText, context, rendered, stage>>
walkVars == <<elements, walkRange, leafBlocks, walkStage>>
findVars == <<textNodes, searchText, foundRange, findStage>>
pageVars == <<location, page, chatInput, navs, domVars, resizeVars, extractVars,
              walkVars, findVars>>
hostVars == <<turns, generating, pageVars>>
lifeVars == <<hidden, popups, spans, watches, activePopup, activeSourceHighlights,
              activeHighlightId, popupStack, completedHighlights, cancelResponseWatch,
              lastKnownUrl, restoreTimer, scheduled, restores>>
vars == <<store, ctxValid, ops, nextId, expected, ret, calls, turns, generating,
          hidden, popups, spans, watches, activePopup, activeSourceHighlights,
          activeHighlightId, popupStack, completedHighlights, cancelResponseWatch,
          lastKnownUrl, restoreTimer, scheduled, restores, location, page,
          chatInput, navs, nodes, range, wrappers, wrapPhase, textBefore,
          innerWidth, popupStyle, drag, customPopupWidthL1, customPopupWidthChained,
          drags, container, selRange, selText, context, rendered, stage,
          elements, walkRange, leafBlocks, walkStage,
          textNodes, searchText, foundRange, findStage>>

(***************************************************************************)
(* storage.js                                                              *)
(***************************************************************************)
\* the record saveHighlight builds (sentence || null, responseHTML || null:
\* every falsy value is the one value Null)
NewHighlight(id, text, sentence, responseHTML, url, parentId, src, q, r) ==
    [id |-> id, text |-> text, sentence |-> sentence,
     responseHTML |-> responseHTML, url |-> url, parentId |-> parentId,
     sourceTurnIndex |-> src, questionIndex |-> q, responseIndex |-> r]

NoRec == NewHighlight(NoId, Null, Null, Null, 0, NoId, -1, -1, -1)

Idle == [kind |-> "idle", pc |-> "idle", arg |-> 0, html |-> Null,
         rec |-> NoRec, val |-> <<>>, del |-> {}, el |-> NoPopup, cb |-> FALSE]

NoRet == [status |-> "none", empty |-> TRUE]

isContextValid == ctxValid

StoreIds(highlights) == {highlights[i].id : i \in DOMAIN highlights}

\* deleteHighlight.collectDescendants: the id, then recursively the children
\* a delete that takes the record and its direct children only
directChildrenOnly(highlights, parentId) ==
    {parentId} \cup {highlights[i].id : i \in {j \in DOMAIN highlights :
                                                 highlights[j].parentId = parentId}}

RECURSIVE collectDescendants(_, _)
collectDescendants(highlights, parentId) ==
    {parentId} \cup
    UNION {collectDescendants(highlights, highlights[i].id) :
             i \in {j \in DOMAIN highlights : highlights[j].parentId = parentId}}

FilterOut(highlights, idsToDelete) ==
    SelectSeq(highlights, LAMBDA h : h.id \notin idsToDelete)

\* highlights.find(h => h.id === id): index of the first match, 0 if none
FindIndex(highlights, id) ==
    IF \E i \in DOMAIN highlights : highlights[i].id = id
    THEN CHOOSE i \in DOMAIN highlights :
            /\ highlights[i].id = id
            /\ \A j \in DOMAIN highlights : highlights[j].id = id => i <= j
    ELSE 0

ChildrenOf(highlights, parentId) ==
    SelectSeq(highlights, LAMBDA h : h.parentId = parentId)

ByUrl(highlights, url) ==
    SelectSeq(highlights, LAMBDA h : h.url = url /\ h.parentId = NoId)

\* what the three fetches return from the highlights getHighlights read
ReadResult(op, highlights) ==
    CASE op.kind = "getHighlights" -> highlights
      [] op.kind = "getChildHighlights" -> ChildrenOf(highlights, op.arg)
      [] OTHER -> ByUrl(highlights, op.arg)

Reads == {"getHighlights", "getChildHighlights", "getHighlightsByUrl"}
Writes == {"saveHighlight", "deleteHighlight", "updateHighlightResponseHTML"}

FreeSlot == CHOOSE s \in Slots : ops[s].kind = "idle" /\ \A t \in Slots : ops[t].kind = "idle" => s <= t
HasFreeSlot == \E s \in Slots : ops[s].kind = "idle"

(***************************************************************************)
(* content.js: module state and the values it holds                        *)
(***************************************************************************)
NoSpans == 0         \* the empty array []
NullSpans == -1      \* null (detachedSpans before a detach and after a rollback)
NoWatch == 0
SourceTurn == 2      \* the AI response turn level-1 selections are made in

\* the markup of the AI response that conversation u shows in its source turn
\* (negative: the answers shown in popups are named by turn numbers)
PageMarkup(u) == 0 - u
\* a markup no conversation shows any more (the conversation was edited)
Edited == 0 - (MaxUrl + 1)

\* a quoted text: the selection it came from (n) and the markup it was
\* selected in (src: PageMarkup(u) in the page, the answer's name in a popup)
NoText == [n |-> 0, src |-> Null]

NoEntry == [present |-> FALSE, spans |-> NoSpans, responseHTML |-> Null,
            text |-> NoText, parentId |-> NoId]
NoPopupEl == [state |-> "none", mode |-> "none", kind |-> "none", html |-> Null,
              text |-> NoText, parentId |-> NoId, wrappers |-> NoSpans]
NoGroup == [state |-> "none", home |-> NoPopup, turn |-> 0, id |-> NoId,
            done |-> FALSE, text |-> NoText]
NoRestore == [state |-> "none", remaining |-> <<>>, attempts |-> 0, timer |-> FALSE]
NoWatchRec == [state |-> "none", attempts |-> 0, questionTurn |-> 0,
               responseTurn |-> 0, cancelled |-> FALSE, detached |-> FALSE,
               detachedSpans |-> NullSpans, detachedHlId |-> NoId,
               popup |-> NoPopup, turnsBefore |-> 0, text |-> NoText,
               parentId |-> NoId, outcome |-> "none", hlId |-> NoId]

Lowest(S) == CHOOSE x \in S : \A y \in S : x <= y
\* the next unused element/array/closure of a table, 0 when the bound is reached
FreeIn(f) == IF \E i \in DOMAIN f : f[i].state = "none"
             THEN Lowest({i \in DOMAIN f : f[i].state = "none"})
             ELSE 0

\* The script state a handler works on.  err: an exception is propagating;
\* ovf: the handler needed more elements than the bounds of the model allow.
Cur == [hidden |-> hidden, popups |-> popups, spans |-> spans, watches |-> watches,
        activePopup |-> activePopup,
        activeSourceHighlights |-> activeSourceHighlights,
        activeHighlightId |-> activeHighlightId, popupStack |-> popupStack,
        completedHighlights |-> completedHighlights,
        cancelResponseWatch |-> cancelResponseWatch,
        lastKnownUrl |-> lastKnownUrl, restoreTimer |-> restoreTimer,
        scheduled |-> scheduled, restores |-> restores,
        nextId |-> nextId, ops |-> ops, err |-> FALSE, ovf |-> FALSE]

CommitLife(d) ==
    /\ ~d.ovf
    /\ hidden' = d.hidden
    /\ popups' = d.popups
    /\ spans' = d.spans
    /\ watches' = d.watches
    /\ activePopup' = d.activePopup
    /\ activeSourceHighlights' = d.activeSourceHighlights
    /\ activeHighlightId' = d.activeHighlightId
    /\ popupStack' = d.popupStack
    /\ completedHighlights' = d.completedHighlights
    /\ cancelResponseWatch' = d.cancelResponseWatch
    /\ lastKnownUrl' = d.lastKnownUrl
    /\ restoreTimer' = d.restoreTimer
    /\ scheduled' = d.scheduled
    /\ restores' = d.restores

Commit(d) ==
    /\ CommitLife(d)
    /\ nextId' = d.nextId
    /\ ops' = d.ops
    /\ UNCHANGED <<store, ctxValid, expected, ret, calls>>

\* a handler that threw leaves the state it had reached; the next handler
\* starts without the exception
Caught(d) == [d EXCEPT !.err = FALSE]

\* a capture that does not look for the stop button
stopButtonIgnored == FALSE

isGenerating == generating

\* the wrapper spans of array g are attached to the document
InDocument(d, g) ==
    /\ g \in Groups
    /\ d.spans[g].state = "wrapped"
    /\ d.spans[g].home # NoPopup => d.popups[d.spans[g].home].state = "mounted"

\* the unwrap loop of removeSourceHighlight, of the timeout branch and of
\* onNavigate: a span without a parent is skipped.  "orphan": the span is
\* wrapped inside an article the host has taken out of the document; it still
\* has a parent node.
Unwrap(d, g) ==
    IF g \in Groups /\ d.spans[g].state \in {"wrapped", "orphan"}
    THEN [d EXCEPT !.spans[g].state = "unwrapped"]
    ELSE d

removeSourceHighlight(d) ==
    [Unwrap(d, d.activeSourceHighlights) EXCEPT !.activeSourceHighlights = NoSpans]

\* an unhide that forgets the question turn
unhideResponseTurnOnly(d, w) ==
    [d EXCEPT !.hidden = @ \ {d.watches[w].responseTurn}]

unhideTurns(d, w) ==
    [d EXCEPT !.hidden = @ \ {d.watches[w].questionTurn, d.watches[w].responseTurn}]

\* saveHighlight called and not awaited: its synchronous head
saveHighlight(d, rec) ==
    IF ~isContextValid THEN d
    ELSE IF \A s \in Slots : d.ops[s].kind # "idle" THEN [d EXCEPT !.ovf = TRUE]
    ELSE [d EXCEPT !.ops[Lowest({s \in Slots : d.ops[s].kind = "idle"})] =
             [kind |-> "saveHighlight", pc |-> "get", arg |-> rec.id, html |-> Null,
              rec |-> rec, val |-> <<>>, del |-> {}, el |-> NoPopup,
                          cb |-> FALSE]]

\* waitForResponse.cancelResponseWatch of watch w.  In detach mode
\* detachedSpans[0].closest throws a TypeError when no span was wrapped.  An
\* id drawn by an earlier call that threw was never stored anywhere, so the
\* model hands the same id out again instead of a new one.
cancelResponseWatchOf(d, w, detachMode) ==
    IF detachMode
    THEN LET ds == d.activeSourceHighlights
             reuse == d.watches[w].detachedHlId # NoId
             id == IF reuse THEN d.watches[w].detachedHlId ELSE d.nextId
             d1 == [d EXCEPT !.watches[w].detachedSpans = ds,
                             !.watches[w].detached = TRUE,
                             !.watches[w].detachedHlId = id,
                             !.nextId = IF reuse THEN @ ELSE @ + 1]
         IN IF id > MaxIds THEN [d EXCEPT !.ovf = TRUE]
            ELSE IF ds = NoSpans THEN [d1 EXCEPT !.err = TRUE]
            ELSE [d1 EXCEPT !.spans[ds].id = id,
                            !.spans[ds].done = TRUE,
                            !.completedHighlights[id] =
                                [present |-> TRUE, spans |-> ds, responseHTML |-> Null,
                                 text |-> d.watches[w].text,
                                 parentId |-> d.watches[w].parentId],
                            !.cancelResponseWatch = NoWatch]
    ELSE [unhideTurns(d, w) EXCEPT !.watches[w].cancelled = TRUE,
                                   !.watches[w].state = "stopped",
                                   !.watches[w].outcome =
                                       IF @ = "none" THEN "cancelled" ELSE @]

removePopup(d) ==
    LET ash == d.activeSourceHighlights
        hlId == IF ash # NoSpans THEN d.spans[ash].id ELSE NoId
        isCompleted == hlId # NoId /\ d.completedHighlights[hlId].present
        crw == d.cancelResponseWatch
        d1 == IF isCompleted
              THEN [(IF crw # NoWatch THEN cancelResponseWatchOf(d, crw, FALSE) ELSE d)
                      EXCEPT !.activeSourceHighlights = NoSpans]
              ELSE IF crw # NoWatch
              THEN LET c == cancelResponseWatchOf(d, crw, TRUE)
                   IN IF c.err \/ c.ovf THEN c
                      ELSE [c EXCEPT !.activeSourceHighlights = NoSpans]
              ELSE removeSourceHighlight(d)
        d2 == IF d1.activePopup # NoPopup
              THEN [d1 EXCEPT !.popups[d1.activePopup].state = "removed",
                              !.activePopup = NoPopup]
              ELSE d1
        d3 == [d2 EXCEPT !.activeHighlightId = NoId]
        n == Len(d3.popupStack)
    IN IF d1.err \/ d1.ovf THEN d1
       ELSE IF n > 0
       THEN [d3 EXCEPT !.activePopup = d3.popupStack[n].popup,
                       !.activeSourceHighlights = d3.popupStack[n].sourceHighlights,
                       !.activeHighlightId = d3.popupStack[n].highlightId,
                       !.popupStack = SubSeq(@, 1, n - 1)]
       ELSE d3

RECURSIVE removeAllPopups(_)
removeAllPopups(d) ==
    IF d.err \/ d.ovf THEN d
    ELSE IF d.activePopup # NoPopup \/ Len(d.popupStack) > 0
    THEN removeAllPopups(removePopup(d))
    ELSE d

pushPopupState(d) ==
    [d EXCEPT !.popupStack = Append(@, [popup |-> d.activePopup,
                                        sourceHighlights |-> d.activeSourceHighlights,
                                        highlightId |-> d.activeHighlightId]),
              !.activePopup = NoPopup,
              !.activeSourceHighlights = NoSpans,
              !.activeHighlightId = NoId]

\* highlightRange + the popup element of createPopup.  wrapOk = FALSE: the
\* wrap failed or found nothing to wrap and returned [].
createPopup(d, wrapOk) ==
    LET p == FreeIn(d.popups)
        g == IF wrapOk THEN FreeIn(d.spans) ELSE NoSpans
        text == [n |-> p, src |-> PageMarkup(page)]
        d1 == IF wrapOk
              THEN [d EXCEPT !.spans[g] = [state |-> "wrapped", home |-> NoPopup,
                                           turn |-> SourceTurn, id |-> NoId,
                                           done |-> FALSE, text |-> text]]
              ELSE d
    IN IF p = 0 \/ (wrapOk /\ g = 0) THEN [d EXCEPT !.ovf = TRUE]
       ELSE [d1 EXCEPT !.popups[p] = [state |-> "mounted", mode |-> "input",
                                      kind |-> "fresh", html |-> Null, text |-> text,
                                      parentId |-> NoId, wrappers |-> g],
                       !.activeSourceHighlights = g,
                       !.activePopup = p]

\* createChainedPopup after pushPopupState: the selection lies in the response
\* of the popup on top of the stack
createChainedPopup(d, parentId, wrapOk) ==
    LET p == FreeIn(d.popups)
        g == IF wrapOk THEN FreeIn(d.spans) ELSE NoSpans
        parentPopupEl == d.popupStack[Len(d.popupStack)].popup
        text == [n |-> p, src |-> d.popups[parentPopupEl].html]
        d1 == IF wrapOk
              THEN [d EXCEPT !.spans[g] = [state |-> "wrapped", home |-> parentPopupEl,
                                           turn |-> 0, id |-> NoId,
                                           done |-> FALSE, text |-> text]]
              ELSE d
    IN IF p = 0 \/ (wrapOk /\ g = 0) THEN [d EXCEPT !.ovf = TRUE]
       ELSE [d1 EXCEPT !.popups[p] = [state |-> "mounted", mode |-> "input",
                                      kind |-> "chained", html |-> Null, text |-> text,
                                      parentId |-> parentId, wrappers |-> g],
                       !.activeSourceHighlights = g,
                       !.activePopup = p]

\* restoreHighlightInElement in the response div of popup p, which shows html:
\* findTextRange finds the quoted text only in the markup it was selected in
restoreHighlightInElement(d, p, html, id, hl) ==
    LET g == FreeIn(d.spans)
    IN IF hl.text.src # html THEN d
       ELSE IF g = 0 THEN [d EXCEPT !.ovf = TRUE]
       ELSE [d EXCEPT !.spans[g] = [state |-> "wrapped", home |-> p,
                                    turn |-> IF p = NoPopup THEN hl.sourceTurnIndex
                                             ELSE 0,
                                    id |-> id, done |-> TRUE, text |-> hl.text],
                      !.completedHighlights[id] =
                          [present |-> TRUE, spans |-> g,
                           responseHTML |-> hl.responseHTML, text |-> hl.text,
                           parentId |-> hl.parentId]]

RECURSIVE RestoreChildren(_, _, _, _)
RestoreChildren(d, p, html, ids) ==
    IF ids = {} \/ d.ovf THEN d
    ELSE RestoreChildren(
             restoreHighlightInElement(d, p, html, Lowest(ids),
                                       d.completedHighlights[Lowest(ids)]),
             p, html, ids \ {Lowest(ids)})

\* getChildHighlights(id).then(...), started by openCompletedPopup for the
\* response div of popup p: getHighlights returns [] at once when the context
\* is invalid and the callback has nothing to restore
getChildHighlightsThen(d, id, p) ==
    IF ~isContextValid THEN d
    ELSE IF \A s \in Slots : d.ops[s].kind # "idle" THEN [d EXCEPT !.ovf = TRUE]
    ELSE [d EXCEPT !.ops[Lowest({s \in Slots : d.ops[s].kind = "idle"})] =
             [Idle EXCEPT !.kind = "getChildHighlights", !.pc = "get",
                          !.arg = id, !.el = p]]

\* the then-callback: stored children whose id no span of the response div
\* carries are restored in it, in stored order
RECURSIVE RestoreStored(_, _, _, _)
RestoreStored(d, p, children, i) ==
    IF i > Len(children) \/ d.ovf THEN d
    ELSE RestoreStored(
             IF \E g \in Groups : /\ d.spans[g].state = "wrapped"
                                  /\ d.spans[g].home = p
                                  /\ d.spans[g].id = children[i].id
             THEN d
             ELSE restoreHighlightInElement(d, p, d.popups[p].html, children[i].id,
                                            children[i]),
             p, children, i + 1)

openCompletedPopup(d, id) ==
    LET entry == d.completedHighlights[id]
        p == FreeIn(d.popups)
        d1 == [d EXCEPT !.popups[p] =
                  [state |-> "mounted",
                   mode |-> IF entry.responseHTML # Null THEN "answer" ELSE "loading",
                   kind |-> "reopened", html |-> entry.responseHTML,
                   text |-> entry.text, parentId |-> entry.parentId,
                   wrappers |-> NoSpans]]
        d2 == IF entry.responseHTML # Null
              THEN getChildHighlightsThen(
                       RestoreChildren(d1, p, entry.responseHTML,
                           {c \in Ids : d.completedHighlights[c].present
                                        /\ d.completedHighlights[c].parentId = id}),
                       id, p)
              ELSE d1
    IN IF ~entry.present THEN d
       ELSE IF p = 0 THEN [d EXCEPT !.ovf = TRUE]
       ELSE [d2 EXCEPT !.activePopup = p,
                       !.activeSourceHighlights = entry.spans,
                       !.activeHighlightId = id]

\* getTurnNumber(spans[0].closest(aiTurn)): the article around the first span,
\* -1 when the span is not inside an article (in a popup, or unwrapped)
sourceTurnIdx(d, g) ==
    IF g \in Groups /\ d.spans[g].state = "wrapped" /\ d.spans[g].home = NoPopup
    THEN d.spans[g].turn
    ELSE -1

\* waitForResponse: a new closure with its own locals; the global
\* cancelResponseWatch is overwritten with its cancel function
waitForResponse(d, popup, turnsBefore, text, parentId) ==
    LET w == FreeIn(d.watches)
    IN IF w = 0 THEN [d EXCEPT !.ovf = TRUE]
       ELSE [d EXCEPT !.watches[w] = [NoWatchRec EXCEPT !.state = "running",
                                                        !.popup = popup,
                                                        !.turnsBefore = turnsBefore,
                                                        !.text = text,
                                                        !.parentId = parentId],
                      !.cancelResponseWatch = w]

\* injectAndSend: TRUE when the message is pasted into the host's chat input,
\* FALSE when the input is not found (an error is logged and it returns)
injectAndSend == chatInput

\* handleSend of createPopup (no parentId argument) and of createChainedPopup:
\* the input row is replaced by the loading row, injectAndSend is called and
\* its outcome is not looked at, then waitForResponse is called
handleSend(d, p) ==
    LET injected == injectAndSend
    IN waitForResponse([d EXCEPT !.popups[p].mode = "loading"], p, Len(turns),
                       d.popups[p].text,
                       IF d.popups[p].kind = "chained" THEN d.popups[p].parentId
                       ELSE NoId)

\* the markup of a response turn is named by the turn's number
captureResponse(d, w) ==
    LET W == d.watches[w]
        sp == IF W.detached THEN W.detachedSpans ELSE d.activeSourceHighlights
        responseHTML == W.responseTurn
        hlId == IF W.detached THEN W.detachedHlId ELSE d.nextId
        d1 == [d EXCEPT !.hidden = @ \cup {W.responseTurn}]
        inPlace == /\ d1.activePopup # NoPopup
                   /\ d1.activeSourceHighlights # NoSpans
                   /\ d1.spans[d1.activeSourceHighlights].id = hlId
        d2 == IF W.detached
              THEN LET e == IF d1.completedHighlights[hlId].present
                            THEN [d1 EXCEPT !.completedHighlights[hlId].responseHTML =
                                                responseHTML]
                            ELSE d1
                   IN IF inPlace
                      THEN [e EXCEPT !.popups[e.activePopup].mode = "answer",
                                     !.popups[e.activePopup].html = responseHTML,
                                     !.activeHighlightId = hlId]
                      ELSE e
              ELSE LET s == [d1 EXCEPT !.popups[W.popup].mode = "answer",
                                       !.popups[W.popup].html = responseHTML,
                                       !.nextId = @ + 1]
                       r == IF sp # NoSpans
                            THEN [s EXCEPT !.spans[sp].id = hlId,
                                           !.spans[sp].done = TRUE,
                                           !.completedHighlights[hlId] =
                                               [present |-> TRUE, spans |-> sp,
                                                responseHTML |-> responseHTML,
                                                text |-> W.text, parentId |-> W.parentId]]
                            ELSE s
                   IN [r EXCEPT !.activeHighlightId = hlId]
        d3 == saveHighlight(d2, NewHighlight(hlId, W.text, Null, responseHTML, location,
                                W.parentId, sourceTurnIdx(d2, sp),
                                IF W.questionTurn # 0 THEN W.questionTurn ELSE -1,
                                W.responseTurn))
    IN IF hlId > MaxIds THEN [d EXCEPT !.ovf = TRUE]
       ELSE [d3 EXCEPT !.cancelResponseWatch = NoWatch,
                       !.watches[w].state = "stopped",
                       !.watches[w].outcome = "captured",
                       !.watches[w].hlId = hlId]

\* the timeout branch of poll
pollTimeout(d, w) ==
    LET W == d.watches[w]
        ds == W.detachedSpans
        d1 == IF ~W.detached
              THEN [d EXCEPT !.popups[W.popup].mode = IF @ = "loading" THEN "timeout" ELSE @]
              ELSE d
        d2 == unhideTurns(d1, w)
        d3 == IF W.detached /\ ds # NullSpans
              THEN LET a == IF W.detachedHlId # NoId
                            THEN [d2 EXCEPT !.completedHighlights[W.detachedHlId] = NoEntry]
                            ELSE d2
                       b == IF ds # NoSpans
                            THEN [Unwrap(a, ds) EXCEPT !.spans[ds].id = NoId,
                                                       !.spans[ds].done = FALSE]
                            ELSE a
                   IN [b EXCEPT !.watches[w].detachedSpans = NullSpans]
              ELSE d2
    IN [d3 EXCEPT !.cancelResponseWatch = NoWatch,
                  !.watches[w].state = "stopped",
                  !.watches[w].outcome = "timeout"]

\* a tick that does not look at the cancelled flag
pollIgnoringCancelled(d, w) ==
    LET W == d.watches[w]
        tb == W.turnsBefore
        q == IF W.questionTurn = 0 /\ Len(turns) > tb /\ turns[tb + 1] # "ai"
             THEN tb + 1 ELSE W.questionTurn
        r == IF W.responseTurn = 0 /\ Len(turns) > tb + 1 /\ turns[tb + 2] = "ai"
             THEN tb + 2 ELSE W.responseTurn
        d1 == [d EXCEPT !.watches[w].attempts = @ + 1,
                        !.watches[w].questionTurn = q,
                        !.watches[w].responseTurn = r,
                        !.hidden = IF q # W.questionTurn THEN @ \cup {q} ELSE @]
    IN IF r # 0 /\ ~isGenerating THEN captureResponse(d1, w)
       ELSE IF d1.watches[w].attempts >= maxAttempts THEN pollTimeout(d1, w)
       ELSE d1

\* one tick of waitForResponse.poll
poll(d, w) ==
    LET W == d.watches[w]
        tb == W.turnsBefore
        q == IF W.questionTurn = 0 /\ Len(turns) > tb /\ turns[tb + 1] # "ai"
             THEN tb + 1 ELSE W.questionTurn
        r == IF W.responseTurn = 0 /\ Len(turns) > tb + 1 /\ turns[tb + 2] = "ai"
             THEN tb + 2 ELSE W.responseTurn
        d1 == [d EXCEPT !.watches[w].attempts = @ + 1,
                        !.watches[w].questionTurn = q,
                        !.watches[w].responseTurn = r,
                        !.hidden = IF q # W.questionTurn THEN @ \cup {q} ELSE @]
    IN IF W.cancelled THEN d
       ELSE IF r # 0 /\ ~isGenerating THEN captureResponse(d1, w)
       ELSE IF d1.watches[w].attempts >= maxAttempts THEN pollTimeout(d1, w)
       ELSE d1

(***************************************************************************)
(* content.js: event listeners                                             *)
(***************************************************************************)
RECURSIVE CloseDownTo(_, _)
CloseDownTo(d, p) ==
    IF d.err \/ d.ovf THEN d
    ELSE IF d.activePopup # NoPopup /\ d.activePopup # p /\ Len(d.popupStack) > 0
    THEN CloseDownTo(removePopup(d), p)
    ELSE d

\* mousedown listener of popup p; g: the wrapper array of the span under the
\* pointer, NoSpans when the pointer is not on a wrapper span
popupMousedown(d, p, g) ==
    IF d.popups[p].kind = "chained" THEN CloseDownTo(d, p)
    ELSE IF /\ d.activePopup # NoPopup
            /\ d.activePopup # p
            /\ Len(d.popupStack) > 0
            /\ (g = NoSpans \/ g # d.activeSourceHighlights)
    THEN CloseDownTo(d, p)
    ELSE d

documentMousedown(d, g) ==
    IF d.activePopup = NoPopup /\ Len(d.popupStack) = 0 THEN d
    ELSE IF /\ g # NoSpans
            /\ \/ g = d.activeSourceHighlights
               \/ \E i \in DOMAIN d.popupStack : d.popupStack[i].sourceHighlights = g
               \/ d.activeHighlightId # NoId /\ d.spans[g].id = d.activeHighlightId
    THEN d
    ELSE removeAllPopups(d)

\* document click listener, the pointer on a span of wrapper array g that
\* carries the jr-source-highlight-done class
documentClick(d, g) ==
    LET hlId == d.spans[g].id
    IN IF d.activePopup # NoPopup /\ g = d.activeSourceHighlights THEN d
       ELSE IF hlId = NoId \/ ~d.completedHighlights[hlId].present THEN d
       ELSE IF d.activePopup # NoPopup /\ d.activeHighlightId # NoId
               /\ hlId = d.activeHighlightId THEN d
       ELSE IF d.spans[g].home # NoPopup
       THEN openCompletedPopup(pushPopupState(d), hlId)
       ELSE LET r == removeAllPopups(d)
            IN IF r.err \/ r.ovf THEN r ELSE openCompletedPopup(r, hlId)

handleSelectionChange(d, wrapOk) ==
    LET r == removeAllPopups(d)
    IN IF r.err \/ r.ovf THEN r ELSE createPopup(r, wrapOk)

\* the timer of the popup mouseup listener (addPopupResponseSelectionHandler)
popupSelection(d, wrapOk) ==
    IF d.activeHighlightId = NoId \/ ~d.completedHighlights[d.activeHighlightId].present
    THEN d
    ELSE createChainedPopup(pushPopupState(d), d.activeHighlightId, wrapOk)

(***************************************************************************)
(* content.js: restore from the Store and SPA navigation                   *)
(***************************************************************************)
\* the turns the host renders for the conversation at location u
Conversation(u) ==
    IF u = 1 THEN <<"user", "ai", "user", "ai">> ELSE <<"user", "ai">>

\* an iteration that hides the recorded turns before it looks for the text
RestoreOneHidingFirst(d, hl) ==
    LET q == IF hl.questionIndex > 0 /\ hl.questionIndex \in DOMAIN turns
             THEN {hl.questionIndex} ELSE {}
        r == IF hl.responseIndex > 0 /\ hl.responseIndex \in DOMAIN turns
             THEN {hl.responseIndex} ELSE {}
        h == [d EXCEPT !.hidden = @ \cup q \cup r]
    IN IF d.completedHighlights[hl.id].present THEN [d |-> d, keep |-> FALSE]
       ELSE IF hl.sourceTurnIndex \notin DOMAIN turns THEN [d |-> d, keep |-> TRUE]
       ELSE IF turns[hl.sourceTurnIndex] # "ai" THEN [d |-> d, keep |-> TRUE]
       ELSE IF hl.text.src # PageMarkup(page) THEN [d |-> h, keep |-> FALSE]
       ELSE [d |-> restoreHighlightInElement(h, NoPopup, PageMarkup(page), hl.id, hl),
             keep |-> FALSE]

\* one iteration of the for loop of tryRestore.  keep: the highlight goes to
\* stillRemaining.  findTextRange finds the quoted text in the markdown of the
\* source article only if the rendered conversation still shows the markup it
\* was selected in.
RestoreOne(d, hl) ==
    IF d.completedHighlights[hl.id].present THEN [d |-> d, keep |-> FALSE]
    ELSE IF hl.sourceTurnIndex \notin DOMAIN turns THEN [d |-> d, keep |-> TRUE]
    ELSE IF turns[hl.sourceTurnIndex] # "ai" THEN [d |-> d, keep |-> TRUE]
    ELSE IF hl.text.src # PageMarkup(page) THEN [d |-> d, keep |-> FALSE]
    ELSE LET e == restoreHighlightInElement(d, NoPopup, PageMarkup(page), hl.id, hl)
             q == IF hl.questionIndex > 0 /\ hl.questionIndex \in DOMAIN turns
                  THEN {hl.questionIndex} ELSE {}
             r == IF hl.responseIndex > 0 /\ hl.responseIndex \in DOMAIN turns
                  THEN {hl.responseIndex} ELSE {}
         IN [d |-> IF e.ovf THEN e ELSE [e EXCEPT !.hidden = @ \cup q \cup r],
             keep |-> FALSE]

RECURSIVE RestoreLoop(_, _, _, _)
RestoreLoop(d, remaining, i, stillRemaining) ==
    IF i > Len(remaining) \/ d.ovf THEN [d |-> d, stillRemaining |-> stillRemaining]
    ELSE LET one == RestoreOne(d, remaining[i])
         IN RestoreLoop(one.d, remaining, i + 1,
                        IF one.keep THEN Append(stillRemaining, remaining[i])
                        ELSE stillRemaining)

\* restoreHighlights.tryRestore of closure r
tryRestore(d, r) ==
    LET l == RestoreLoop(d, d.restores[r].remaining, 1, <<>>)
        attempts == d.restores[r].attempts + 1
        again == l.stillRemaining # <<>> /\ attempts < restoreMaxAttempts
    IN [l.d EXCEPT !.restores[r].remaining = l.stillRemaining,
                   !.restores[r].attempts = attempts,
                   !.restores[r].timer = again,
                   !.restoreTimer = IF again THEN r ELSE @]

\* the then-callback of restoreHighlights
thenRestore(d, highlights) ==
    LET restorable == SelectSeq(highlights, LAMBDA hl :
                          hl.sourceTurnIndex > 0 /\ hl.responseHTML # Null)
        r == FreeIn(d.restores)
    IN IF highlights = <<>> \/ restorable = <<>> THEN d
       ELSE IF r = 0 THEN [d EXCEPT !.ovf = TRUE]
       ELSE tryRestore([d EXCEPT !.restores[r] =
                           [state |-> "live", remaining |-> restorable,
                            attempts |-> 0, timer |-> FALSE]], r)

\* clearTimeout(restoreTimer); restoreTimer = null
clearRestoreTimer(d) ==
    IF d.restoreTimer # 0
    THEN [d EXCEPT !.restores[d.restoreTimer].timer = FALSE, !.restoreTimer = 0]
    ELSE d

\* restoreHighlights up to the fetch it starts for url; getHighlights returns
\* [] at once when the context is invalid, and the callback returns on []
restoreHighlights(d, url) ==
    LET c == clearRestoreTimer(d)
    IN IF ~isContextValid THEN c
       ELSE IF \A s \in Slots : c.ops[s].kind # "idle" THEN [c EXCEPT !.ovf = TRUE]
       ELSE [c EXCEPT !.ops[Lowest({s \in Slots : c.ops[s].kind = "idle"})] =
                [Idle EXCEPT !.kind = "getHighlightsByUrl", !.pc = "get",
                             !.arg = url, !.cb = TRUE]]

RECURSIVE UnwrapEntries(_, _)
UnwrapEntries(d, ids) ==
    IF ids = {} THEN d
    ELSE UnwrapEntries(Unwrap(d, d.completedHighlights[Lowest(ids)].spans),
                       ids \ {Lowest(ids)})

\* onNavigate with location.href = currentUrl
onNavigate(d, currentUrl) ==
    LET d1 == removeAllPopups([d EXCEPT !.lastKnownUrl = currentUrl])
        d2 == UnwrapEntries(clearRestoreTimer(d1),
                            {i \in Ids : d1.completedHighlights[i].present})
    IN IF currentUrl = d.lastKnownUrl THEN d
       ELSE IF d1.err \/ d1.ovf THEN d1
       ELSE [d2 EXCEPT !.completedHighlights = [i \in Ids |-> NoEntry],
                       !.scheduled = @ + 1]

(***************************************************************************)
(* storage.js: the calls, suspended and resumed at their await points      *)
(***************************************************************************)
\* The synchronous head of a Store call, up to its first await.  Every call
\* but clearAllHighlights reaches getHighlights, which returns [] at once
\* when the context is invalid and otherwise awaits chrome.storage.local.get.
\* saveHighlight, deleteHighlight and updateHighlightResponseHTML check the
\* context themselves first and return null/undefined.
StoreCall(kind, arg, html, rec) ==
    /\ calls' = calls + 1
    /\ IF isContextValid
       THEN /\ ops' = [ops EXCEPT ![FreeSlot] =
                         [kind |-> kind, pc |-> "get", arg |-> arg, html |-> html,
                          rec |-> rec, val |-> <<>>, del |-> {}, el |-> NoPopup,
                          cb |-> FALSE]]
            /\ UNCHANGED <<store, expected, ret>>
       ELSE /\ ret' = [status |-> "returned", empty |-> TRUE]
            /\ UNCHANGED <<store, ops, expected>>

\* chrome.storage.local.get resolves; the continuation of the caller runs in
\* the same tick up to its next await (chrome.storage.local.set) or return.
\* A chrome.* call issued after the context was invalidated throws, which
\* rejects the promise of the async function that issued it.  The read that
\* openCompletedPopup started for popup el continues in its then-callback, the
\* read that restoreHighlights started in its own.
GetResolves(s) ==
    /\ ops[s].pc = "get"
    /\ LET op == ops[s]
           highlights == store
       IN
       CASE op.kind \in Reads ->
              /\ ret' = [status |-> "returned", empty |-> ReadResult(op, highlights) = <<>>]
              /\ ops' = [ops EXCEPT ![s] = Idle]
              /\ UNCHANGED <<store, expected>>
         [] op.kind = "updateHighlightResponseHTML" /\ FindIndex(highlights, op.arg) = 0 ->
              /\ ret' = [status |-> "returned", empty |-> TRUE]
              /\ ops' = [ops EXCEPT ![s] = Idle]
              /\ UNCHANGED <<store, expected>>
         [] OTHER ->
              IF ~isContextValid
              THEN /\ ret' = [status |-> "rejected", empty |-> TRUE]
                   /\ ops' = [ops EXCEPT ![s] = Idle]
                   /\ UNCHANGED <<store, expected>>
              ELSE /\ ops' = [ops EXCEPT ![s] =
                        CASE op.kind = "saveHighlight" ->
                               [op EXCEPT !.pc = "set", !.val = Append(highlights, op.rec)]
                          [] op.kind = "deleteHighlight" ->
                               [op EXCEPT !.pc = "set",
                                          !.del = collectDescendants(highlights, op.arg),
                                          !.val = FilterOut(highlights, collectDescendants(highlights, op.arg))]
                          [] OTHER ->
                               [op EXCEPT !.pc = "set",
                                          !.val = [highlights EXCEPT ![FindIndex(highlights, op.arg)].responseHTML = op.html]]]
                   /\ UNCHANGED <<store, expected, ret>>
    /\ IF ops[s].kind = "getChildHighlights" /\ ops[s].el # NoPopup
       THEN CommitLife(RestoreStored(Cur, ops[s].el, ChildrenOf(store, ops[s].arg), 1))
       ELSE IF ops[s].kind = "getHighlightsByUrl" /\ ops[s].cb
       THEN CommitLife(thenRestore(Cur, ByUrl(store, ops[s].arg)))
       ELSE UNCHANGED lifeVars
    /\ UNCHANGED <<ctxValid, nextId, calls>>
    /\ UNCHANGED hostVars

\* chrome.storage.local.set takes effect and resolves; the caller returns.
SetResolves(s) ==
    /\ ops[s].pc = "set"
    /\ store' = ops[s].val
    /\ ops' = [ops EXCEPT ![s] = Idle]
    /\ expected' = CASE ops[s].kind = "saveHighlight" -> expected \cup {ops[s].rec.id}
                     [] ops[s].kind = "clearAllHighlights" -> {}
                     [] OTHER -> expected \ ops[s].del
    /\ ret' = [status |-> "returned", empty |-> ops[s].kind # "saveHighlight"]
    /\ UNCHANGED <<ctxValid, nextId, calls>>
    /\ UNCHANGED <<hostVars, lifeVars>>

\* the extension is reloaded: this content script's context is invalid for good
ContextInvalidated ==
    /\ ctxValid
    /\ ctxValid' = FALSE
    /\ UNCHANGED <<store, ops, nextId, expected, ret, calls>>
    /\ UNCHANGED <<hostVars, lifeVars>>

(***************************************************************************)
(* The host page                                                           *)
(***************************************************************************)
HostUserTurn ==
    /\ Len(turns) < MaxTurns
    /\ turns[Len(turns)] = "ai"
    /\ ~generating
    /\ turns' = Append(turns, "user")
    /\ UNCHANGED <<generating, pageVars, storeVars, lifeVars>>

HostAiTurn ==
    /\ Len(turns) < MaxTurns
    /\ turns[Len(turns)] = "user"
    /\ turns' = Append(turns, "ai")
    /\ generating' = TRUE
    /\ UNCHANGED <<pageVars, storeVars, lifeVars>>

HostFinish ==
    /\ generating
    /\ generating' = FALSE
    /\ UNCHANGED <<turns, pageVars, storeVars, lifeVars>>

(***************************************************************************)
(* User gestures and timers                                                *)
(***************************************************************************)
\* drag over text of the AI response in the page: mousedown, mouseup, then
\* handleSelectionChange
SelectText(wrapOk) ==
    /\ SourceTurn \in DOMAIN turns
    /\ Commit(Caught(handleSelectionChange(Caught(documentMousedown(Cur, NoSpans)),
                                           wrapOk)))
    /\ UNCHANGED hostVars

\* press and release outside every popup, nothing selected
ClickOutside ==
    /\ activePopup # NoPopup \/ Len(popupStack) > 0
    /\ Commit(Caught(removeAllPopups(Caught(documentMousedown(Cur, NoSpans)))))
    /\ UNCHANGED hostVars

Escape ==
    /\ activePopup # NoPopup
    /\ Commit(Caught(removePopup(Cur)))
    /\ UNCHANGED hostVars

Send ==
    /\ activePopup # NoPopup
    /\ popups[activePopup].mode = "input"
    /\ Commit(handleSend(Cur, activePopup))
    /\ UNCHANGED hostVars

\* click on a completed-looking span of wrapper array g
ClickDoneSpan(g) ==
    /\ InDocument(Cur, g)
    /\ spans[g].done
    /\ LET d1 == Caught(IF spans[g].home # NoPopup
                        THEN popupMousedown(Cur, spans[g].home, g)
                        ELSE documentMousedown(Cur, g))
       IN Commit(Caught(documentClick(d1, g)))
    /\ UNCHANGED hostVars

\* drag over text of the response shown in popup p
SelectInPopup(p, wrapOk) ==
    /\ popups[p].state = "mounted"
    /\ popups[p].mode = "answer"
    /\ Commit(Caught(popupSelection(Caught(popupMousedown(Cur, p, NoSpans)), wrapOk)))
    /\ UNCHANGED hostVars

\* a timer of poll that is still pending after the watch has ended
PollAnyState(w) ==
    /\ watches[w].state # "none"
    /\ Commit(poll(Cur, w))
    /\ UNCHANGED hostVars

\* the timer set by setTimeout(poll, 500) fires: one is pending from
\* waitForResponse on and after every tick that neither captured nor timed
\* out, and a full cancel clears it
Poll(w) ==
    /\ watches[w].state = "running"
    /\ Commit(poll(Cur, w))
    /\ UNCHANGED hostVars

(***************************************************************************)
(* Navigation, restore timers and the host's rendering                     *)
(***************************************************************************)
\* the host calls the patched history.pushState / replaceState with url u:
\* location.href changes and onNavigate runs in the same task
Navigate(u) ==
    /\ navs < MaxNav
    /\ navs' = navs + 1
    /\ location' = u
    /\ Commit(Caught(onNavigate(Cur, u)))
    /\ UNCHANGED <<turns, generating, page, chatInput, domVars, resizeVars, extractVars,
                   walkVars, findVars>>

\* a timer set by setTimeout(restoreHighlights, 1000) fires
ScheduledRestore ==
    /\ scheduled > 0
    /\ Commit(restoreHighlights([Cur EXCEPT !.scheduled = @ - 1], location))
    /\ UNCHANGED hostVars

\* the timer of closure r, set by setTimeout(tryRestore, 500), fires
RestoreTimer(r) ==
    /\ restores[r].timer
    /\ Commit(tryRestore([Cur EXCEPT !.restores[r].timer = FALSE], r))
    /\ UNCHANGED hostVars

\* the host takes the articles of the conversation it showed out of the document
HostUnrender ==
    /\ page # 0
    /\ page # location
    /\ page' = 0
    /\ turns' = <<>>
    /\ generating' = FALSE
    /\ Commit([Cur EXCEPT !.hidden = {},
                          !.spans = [g \in Groups |->
                               IF spans[g].state = "wrapped" /\ spans[g].home = NoPopup
                               THEN [spans[g] EXCEPT !.state = "orphan"]
                               ELSE spans[g]]])
    /\ UNCHANGED <<location, chatInput, navs, domVars, resizeVars, extractVars, walkVars, findVars>>

\* the host renders the articles of the conversation at the current location
HostRender ==
    /\ page = 0
    /\ page' = location
    /\ turns' = Conversation(location)
    /\ UNCHANGED <<generating, location, chatInput, navs, domVars, resizeVars,
                   extractVars, walkVars, findVars,
                   storeVars, lifeVars>>

(***************************************************************************)
(* Callers of the Store, for SpecStore: any call with any argument.        *)
(***************************************************************************)
CallSave(parentId, url) ==
    /\ HasFreeSlot /\ calls < MaxCalls
    /\ nextId <= MaxIds
    /\ parentId \in {NoId} \cup (1..(nextId - 1))
    /\ nextId' = nextId + 1
    /\ StoreCall("saveHighlight", nextId, Null,
                 NewHighlight(nextId, 1, Null, 1, url, parentId, 2, 3, 4))
    /\ UNCHANGED <<ctxValid, hostVars, lifeVars>>

CallGetHighlights ==
    /\ HasFreeSlot /\ calls < MaxCalls
    /\ StoreCall("getHighlights", 0, Null, NoRec)
    /\ UNCHANGED <<ctxValid, nextId, hostVars, lifeVars>>

CallGetChildHighlights(parentId) ==
    /\ HasFreeSlot /\ calls < MaxCalls
    /\ StoreCall("getChildHighlights", parentId, Null, NoRec)
    /\ UNCHANGED <<ctxValid, nextId, hostVars, lifeVars>>

CallGetHighlightsByUrl(url) ==
    /\ HasFreeSlot /\ calls < MaxCalls
    /\ StoreCall("getHighlightsByUrl", url, Null, NoRec)
    /\ UNCHANGED <<ctxValid, nextId, hostVars, lifeVars>>

CallDelete(id) ==
    /\ HasFreeSlot /\ calls < MaxCalls
    /\ StoreCall("deleteHighlight", id, Null, NoRec)
    /\ UNCHANGED <<ctxValid, nextId, hostVars, lifeVars>>

CallUpdate(id) ==
    /\ HasFreeSlot /\ calls < MaxCalls
    /\ StoreCall("updateHighlightResponseHTML", id, 2, NoRec)
    /\ UNCHANGED <<ctxValid, nextId, hostVars, lifeVars>>

\* clearAllHighlights: the context check and the set are issued in one tick
CallClear ==
    /\ HasFreeSlot /\ calls < MaxCalls
    /\ IF isContextValid
       THEN /\ ops' = [ops EXCEPT ![FreeSlot] =
                         [Idle EXCEPT !.kind = "clearAllHighlights", !.pc = "set",
                                      !.del = StoreIds(store)]]
            /\ UNCHANGED <<store, expected, ret>>
       ELSE /\ ret' = [status |-> "returned", empty |-> TRUE]
            /\ UNCHANGED <<store, ops, expected>>
    /\ calls' = calls + 1
    /\ UNCHANGED <<ctxValid, nextId, hostVars, lifeVars>>

(***************************************************************************)
(* content.js: highlightRange and removeSourceHighlight on the DOM.        *)
(* The text nodes of a container are a sequence in document order.  A text *)
(* node has its parent element (1: the container, 2: an element inside the *)
(* container, 0: none, the node is in no tree but its own), its data, and  *)
(* the wrapper span it was moved into (0: none).  A boundary point is      *)
(* [node, offset]: inside text node `node` at `offset`, or, with node = 0, *)
(* in an element, between text node `offset` and the next one.             *)
(***************************************************************************)
NoRange == [start |-> [node |-> 0, offset |-> 0], end |-> [node |-> 0, offset |-> 0]]

\* the script has not been given a container
NoDom ==
    /\ nodes = <<>>
    /\ range = NoRange
    /\ wrappers = <<>>
    /\ wrapPhase = "none"
    /\ textBefore = <<>>

Min(a, b) == IF a <= b THEN a ELSE b

\* Element.textContent of the container: the data of its text nodes in order
RECURSIVE textContent(_)
textContent(ns) ==
    IF ns = <<>> THEN <<>>
    ELSE (IF Head(ns).parent # 0 THEN Head(ns).data ELSE <<>>) \o textContent(Tail(ns))

\* Text.splitText(k) on text node i: the node keeps the first k characters, a
\* new node with the rest follows it (as its next sibling when it has a parent)
splitText(ns, i, k) ==
    SubSeq(ns, 1, i - 1)
      \o <<[ns[i] EXCEPT !.data = SubSeq(@, 1, k)],
           [ns[i] EXCEPT !.data = SubSeq(@, k + 1, Len(@))]>>
      \o SubSeq(ns, i + 1, Len(ns))

\* tn.parentNode is null
NoParentNode(ns, i) == ns[i].parent = 0 /\ ns[i].span = 0

\* parentNode.insertBefore(span, tn); span.appendChild(tn)
WrapNode(ns, i, span) == [ns EXCEPT ![i].span = span]

\* the cleanup loop of the catch block without the return, for comparison
highlightRangeUncaught(ns, ws) ==
    [nodes |-> ns, wrappers |-> ws, ended |-> "threw"]

\* the catch block of highlightRange: every wrapper made so far is unwrapped
\* (no normalize), and [] is returned
highlightRangeCatch(ns, ws) ==
    [nodes |-> [i \in DOMAIN ns |->
                  IF \E j \in DOMAIN ws : ns[i].span = ws[j]
                  THEN [ns[i] EXCEPT !.span = 0]
                  ELSE ns[i]],
     wrappers |-> <<>>,
     ended |-> "failed"]

highlightRangeReturn(ns, ws) == [nodes |-> ns, wrappers |-> ws, ended |-> "wrapped"]

\* the range is within a single text node
highlightRangeSingle(ns, r) ==
    LET i == r.start.node
        so == Min(r.start.offset, Len(ns[i].data))
        eo == Min(r.end.offset, Len(ns[i].data))
        split == splitText(splitText(ns, i, so), i + 1, eo - so)
    IN IF so >= eo THEN highlightRangeReturn(ns, <<>>)
       ELSE IF NoParentNode(ns, i) THEN highlightRangeCatch(split, <<>>)
       ELSE highlightRangeReturn(WrapNode(split, i + 1, i), <<i>>)

\* the loop over textNodes in reverse, at text node i; the span made for text
\* node i is named i
RECURSIVE highlightRangeLoop(_, _, _, _, _, _, _)
highlightRangeLoop(ns, ws, i, first, last, firstOffset, lastOffset) ==
    IF i < first THEN highlightRangeReturn(ns, ws)
    ELSE IF i = first /\ i = last
    THEN IF firstOffset >= lastOffset
         THEN highlightRangeLoop(ns, ws, i - 1, first, last, firstOffset, lastOffset)
         ELSE LET split == splitText(splitText(ns, i, firstOffset), i + 1,
                                     lastOffset - firstOffset)
              IN IF NoParentNode(ns, i) THEN highlightRangeCatch(split, ws)
                 ELSE highlightRangeLoop(WrapNode(split, i + 1, i), <<i>> \o ws,
                                         i - 1, first, last, firstOffset, lastOffset)
    ELSE IF i = last
    THEN IF lastOffset > 0
         THEN LET split == splitText(ns, i, lastOffset)
              IN IF NoParentNode(ns, i) THEN highlightRangeCatch(split, ws)
                 ELSE highlightRangeLoop(WrapNode(split, i, i), <<i>> \o ws,
                                         i - 1, first, last, firstOffset, lastOffset)
         ELSE highlightRangeLoop(ns, ws, i - 1, first, last, firstOffset, lastOffset)
    ELSE IF i = first
    THEN IF firstOffset < Len(ns[i].data)
         THEN LET split == splitText(ns, i, firstOffset)
              IN IF NoParentNode(ns, i) THEN highlightRangeCatch(split, ws)
                 ELSE highlightRangeLoop(WrapNode(split, i + 1, i), <<i>> \o ws,
                                         i - 1, first, last, firstOffset, lastOffset)
         ELSE highlightRangeLoop(ns, ws, i - 1, first, last, firstOffset, lastOffset)
    ELSE IF NoParentNode(ns, i) THEN highlightRangeCatch(ns, ws)
    ELSE highlightRangeLoop(WrapNode(ns, i, i), <<i>> \o ws,
                            i - 1, first, last, firstOffset, lastOffset)

\* the text nodes the TreeWalker finds that range.intersectsNode: a node
\* intersects when it does not end before the start and does not begin
\* after the end of the range
IntersectedFirst(r) == IF r.start.node # 0 THEN r.start.node ELSE r.start.offset + 1
IntersectedLast(r) == IF r.end.node # 0 THEN r.end.node ELSE r.end.offset

highlightRange(ns, r) ==
    LET first == IntersectedFirst(r)
        last == IntersectedLast(r)
        firstOffset == IF first = r.start.node
                       THEN Min(r.start.offset, Len(ns[first].data))
                       ELSE 0
        lastOffset == IF last = r.end.node
                      THEN Min(r.end.offset, Len(ns[last].data))
                      ELSE Len(ns[last].data)
    IN IF r.start = r.end THEN highlightRangeReturn(ns, <<>>)
       ELSE IF r.start.node = r.end.node /\ r.start.node # 0
       THEN highlightRangeSingle(ns, r)
       ELSE IF first > last THEN highlightRangeReturn(ns, <<>>)
       ELSE highlightRangeLoop(ns, <<>>, last, first, last, firstOffset, lastOffset)

\* the elements of the subtree of element e (element 2 lies in element 1)
Subtree(e) == IF e = 1 THEN {1, 2} ELSE {e}

\* Node.normalize() on element e, second half: adjacent text nodes are merged
RECURSIVE MergeAdjacent(_, _, _)
MergeAdjacent(ns, e, i) ==
    IF i >= Len(ns) THEN ns
    ELSE IF /\ ns[i].parent = ns[i + 1].parent
            /\ ns[i].span = ns[i + 1].span
            /\ ns[i].parent \in Subtree(e)
    THEN MergeAdjacent(SubSeq(ns, 1, i - 1)
                         \o <<[ns[i] EXCEPT !.data = @ \o ns[i + 1].data]>>
                         \o SubSeq(ns, i + 2, Len(ns)),
                       e, i)
    ELSE MergeAdjacent(ns, e, i + 1)

\* Node.normalize() on element e: the empty text nodes of its subtree are
\* removed and the adjacent ones merged
normalize(ns, e) ==
    MergeAdjacent(SelectSeq(ns, LAMBDA n : ~(n.data = <<>> /\ n.parent \in Subtree(e))),
                  e, 1)

\* the loop body of removeSourceHighlight without parent.normalize(), for
\* comparison
UnwrapSpanOnly(ns, span) ==
    IF \E i \in DOMAIN ns : ns[i].span = span /\ ns[i].parent # 0
    THEN [i \in DOMAIN ns |-> IF ns[i].span = span THEN [ns[i] EXCEPT !.span = 0]
                                                   ELSE ns[i]]
    ELSE ns

\* the loop body of removeSourceHighlight for one span: its children are moved
\* before it, it is removed, its parent is normalized
UnwrapSpan(ns, span) ==
    IF \E i \in DOMAIN ns : ns[i].span = span /\ ns[i].parent # 0
    THEN LET i == CHOOSE i \in DOMAIN ns : ns[i].span = span
         IN normalize([j \in DOMAIN ns |-> IF ns[j].span = span
                                           THEN [ns[j] EXCEPT !.span = 0]
                                           ELSE ns[j]],
                      ns[i].parent)
    ELSE ns

\* removeSourceHighlight over the spans of activeSourceHighlights
RECURSIVE removeSourceHighlightOf(_, _)
removeSourceHighlightOf(ns, ws) ==
    IF ws = <<>> THEN ns
    ELSE removeSourceHighlightOf(UnwrapSpan(ns, Head(ws)), Tail(ws))

\* wrappers = highlightRange(range)
WrapRange ==
    /\ wrapPhase = "ready"
    /\ LET h == highlightRange(nodes, range)
       IN /\ nodes' = h.nodes
          /\ wrappers' = h.wrappers
          /\ wrapPhase' = h.ended
    /\ UNCHANGED <<range, textBefore>>
    /\ UNCHANGED <<location, page, chatInput, navs, turns, generating, storeVars,
                   lifeVars, resizeVars, extractVars, walkVars, findVars>>

\* activeSourceHighlights = wrappers; removeSourceHighlight()
UnwrapRange ==
    /\ wrapPhase = "wrapped"
    /\ nodes' = removeSourceHighlightOf(nodes, wrappers)
    /\ wrapPhase' = "unwrapped"
    /\ UNCHANGED <<range, wrappers, textBefore>>
    /\ UNCHANGED <<location, page, chatInput, navs, turns, generating, storeVars,
                   lifeVars, resizeVars, extractVars, walkVars, findVars>>

\* the containers: MaxNodes text nodes at most, none of them empty, the text
\* nodes of element 2 next to each other; the last text node may be one
\* that is in no tree (parent 0) instead of a node of the container
Containers ==
    LET Node(i, parent, len) == [parent |-> parent,
                                 data |-> [k \in 1..len |-> 10 * i + k],
                                 span |-> 0]
        Shapes(n) == {ps \in [1..n -> 0..2] :
                        /\ \A i \in 1..n : ps[i] = 0 => i = n
                        /\ \A i, j \in 1..n :
                              (i < j /\ ps[i] = 2 /\ ps[j] = 2) =>
                                  \A k \in i..j : ps[k] = 2}
    IN UNION {{[i \in 1..n |-> Node(i, ps[i], ls[i])] :
                  ps \in Shapes(n), ls \in [1..n -> 1..MaxLen]} : n \in 1..MaxNodes}

\* the boundary points of a container: in a text node 0..length, in an element
\* before the first text node of the container, between two, after the last
BoundaryPoints(ns) ==
    {[node |-> i, offset |-> k] : i \in DOMAIN ns, k \in 0..MaxLen}
      \cup {[node |-> 0, offset |-> j] : j \in 0..Len(ns)}

\* the place of a boundary point in document order
Place(b) == IF b.node = 0 THEN (b.offset + 1) * (MaxLen + 2)
            ELSE b.node * (MaxLen + 2) + b.offset + 1

\* both boundary points of a Range are in one tree, the start is not after
\* the end
Ranges(ns) ==
    {r \in [start : BoundaryPoints(ns), end : BoundaryPoints(ns)] :
        /\ Place(r.start) <= Place(r.end)
        /\ \A b \in {r.start, r.end} :
              /\ b.node # 0 => b.offset <= Len(ns[b.node].data)
              /\ b.node = 0 => \A i \in 1..b.offset : ns[i].parent # 0
        /\ \/ r.start.node = r.end.node /\ r.start.node # 0
           \/ \A b \in {r.start, r.end} : b.node # 0 => ns[b.node].parent # 0}

(***************************************************************************)
(* content.js: addResizeHandlers.  Widths and positions are in pixels.     *)
(***************************************************************************)
MIN_WIDTH == 280
DefaultWidth == 360   \* the width of a popup that has no style.width
NoStyle == [width |-> 0, left |-> 0, chained |-> FALSE]
NoDrag == [edge |-> "none", startWidth |-> 0, startLeft |-> 0, moved |-> FALSE]

\* no popup is on the page
NoResize ==
    /\ innerWidth = 0
    /\ popupStyle = NoStyle
    /\ drag = NoDrag
    /\ customPopupWidthL1 = 0
    /\ customPopupWidthChained = 0
    /\ drags = 0

Maximum(a, b) == IF a >= b THEN a ELSE b

\* onMove: the new width for a mouse that is dx pixels right of where the drag began
onMoveWidth(edge, startWidth, dx, viewport) ==
    Maximum(MIN_WIDTH,
            Min(IF edge = "right" THEN startWidth + dx ELSE startWidth - dx,
                viewport - 32))

\* createPopup, createChainedPopup, openCompletedPopup: the width a new popup
\* of a depth class gets
NewPopupWidth(chained) ==
    LET w == IF chained THEN customPopupWidthChained ELSE customPopupWidthL1
    IN IF w # 0 THEN w ELSE DefaultWidth

\* the widths of the window and the mouse movements of a drag tried
Viewports == {300, 320, 400, 1280}
Deltas == {-1000, -40, 0, 40, 1000}

\* a popup is created while no edge is dragged
OpenPopup(chained) ==
    /\ drag = NoDrag
    /\ popupStyle' = [width |-> NewPopupWidth(chained), left |-> 0, chained |-> chained]
    /\ UNCHANGED <<innerWidth, drag, customPopupWidthL1, customPopupWidthChained, drags>>
    /\ UNCHANGED <<location, page, chatInput, navs, turns, generating, storeVars,
                   lifeVars, domVars, extractVars, walkVars, findVars>>

\* the user resizes the window
WindowResize(w) ==
    /\ innerWidth' = w
    /\ innerWidth # w
    /\ UNCHANGED <<popupStyle, drag, customPopupWidthL1, customPopupWidthChained, drags>>
    /\ UNCHANGED <<location, page, chatInput, navs, turns, generating, storeVars,
                   lifeVars, domVars, extractVars, walkVars, findVars>>

\* mousedown within EDGE_ZONE of an edge of the popup
EdgeMouseDown(edge) ==
    /\ popupStyle # NoStyle
    /\ drag = NoDrag
    /\ drags < MaxDrags
    /\ drags' = drags + 1
    /\ drag' = [edge |-> edge, startWidth |-> popupStyle.width,
                startLeft |-> popupStyle.left, moved |-> FALSE]
    /\ UNCHANGED <<innerWidth, popupStyle, customPopupWidthL1, customPopupWidthChained>>
    /\ UNCHANGED <<location, page, chatInput, navs, turns, generating, storeVars,
                   lifeVars, domVars, extractVars, walkVars, findVars>>

\* onMove
DragMove(dx) ==
    /\ drag # NoDrag
    /\ LET newWidth == onMoveWidth(drag.edge, drag.startWidth, dx, innerWidth)
           newLeft == IF drag.edge = "left"
                      THEN drag.startLeft + (drag.startWidth - newWidth)
                      ELSE drag.startLeft
       IN popupStyle' = [popupStyle EXCEPT !.width = newWidth, !.left = newLeft]
    /\ drag' = [drag EXCEPT !.moved = TRUE]
    /\ UNCHANGED <<innerWidth, customPopupWidthL1, customPopupWidthChained, drags>>
    /\ UNCHANGED <<location, page, chatInput, navs, turns, generating, storeVars,
                   lifeVars, domVars, extractVars, walkVars, findVars>>

\* onUp: popup.offsetWidth is remembered for the depth class of the popup
DragUp ==
    /\ drag # NoDrag
    /\ drag' = NoDrag
    /\ IF popupStyle.chained
       THEN /\ customPopupWidthChained' = popupStyle.width
            /\ UNCHANGED customPopupWidthL1
       ELSE /\ customPopupWidthL1' = popupStyle.width
            /\ UNCHANGED customPopupWidthChained
    /\ UNCHANGED <<innerWidth, popupStyle, drags>>
    /\ UNCHANGED <<location, page, chatInput, navs, turns, generating, storeVars,
                   lifeVars, domVars, extractVars, walkVars, findVars>>

(***************************************************************************)
(* content.js: the sentence extractor.  A string is a sequence of          *)
(* characters; offsets are those of the source (0-based), so slice(a, b)   *)
(* is SubSeq(s, a + 1, b).  A leaf block is its tag, what the walk to the  *)
(* container finds above it, and its inline content: a sequence of text    *)
(* nodes, text nodes inside STRONG or B, and citation pill elements.       *)
(***************************************************************************)
NL == "\n"
WhiteSpace == {" ", NL}
SENTENCE_TERMINATORS == {".", "?", "!", "U+3002", "U+FF1F", "U+FF01"}

\* String.slice: a negative index counts from the end, an index beyond the
\* end is the end
slice(s, a, b) ==
    LET at(i) == IF i < 0 THEN Maximum(Len(s) + i, 0) ELSE Min(i, Len(s))
    IN SubSeq(s, at(a) + 1, at(b))

RECURSIVE trimStart(_)
trimStart(s) ==
    IF s # <<>> /\ Head(s) \in WhiteSpace THEN trimStart(Tail(s)) ELSE s

RECURSIVE trimEnd(_)
trimEnd(s) ==
    IF s # <<>> /\ s[Len(s)] \in WhiteSpace THEN trimEnd(SubSeq(s, 1, Len(s) - 1)) ELSE s

trim(s) == trimEnd(trimStart(s))

\* every text counted as one line
lineCountOne(s) == 1

\* s.split("\n").length
lineCount(s) == 1 + Cardinality({i \in DOMAIN s : s[i] = NL})

\* blocks.join("\n")
RECURSIVE join(_)
join(blocks) ==
    IF blocks = <<>> THEN <<>>
    ELSE IF Len(blocks) = 1 THEN blocks[1]
    ELSE blocks[1] \o <<NL>> \o join(Tail(blocks))

\* node.textContent of a block: the data of its inline content in order
RECURSIVE blockTextContent(_)
blockTextContent(segs) ==
    IF segs = <<>> THEN <<>> ELSE Head(segs).data \o blockTextContent(Tail(segs))

\* walk of extractBlockText: raw.length before each piece of inline content
RawBefore(segs, k) == Len(blockTextContent(SubSeq(segs, 1, k - 1)))

\* the {start, end} records the walk pushes for the pieces of one kind
WalkRanges(segs, kind) ==
    LET idx == SelectSeq([k \in DOMAIN segs |-> k], LAMBDA k : segs[k].kind = kind)
    IN [j \in DOMAIN idx |-> [start |-> RawBefore(segs, idx[j]),
                              end |-> RawBefore(segs, idx[j]) + Len(segs[idx[j]].data)]]

\* no interval is merged
mergeBoldsNone(merged, rest) == merged \o rest

\* the merge loop of extractBlockText over bolds, from bolds[mi] on
RECURSIVE mergeBolds(_, _)
mergeBolds(merged, rest) ==
    IF rest = <<>> THEN merged
    ELSE LET prev == merged[Len(merged)]
         IN IF Head(rest).start <= prev.end
            THEN mergeBolds([merged EXCEPT ![Len(merged)].end =
                                               Maximum(prev.end, Head(rest).end)],
                            Tail(rest))
            ELSE mergeBolds(Append(merged, Head(rest)), Tail(rest))

\* the adjustment of extractBlockText for the leading whitespace trim() removes
adjustLeading(arr, leadingWS, trimmedLen) ==
    LET moved == [i \in DOMAIN arr |-> [start |-> arr[i].start - leadingWS,
                                        end |-> arr[i].end - leadingWS]]
        kept == SelectSeq(moved, LAMBDA r : ~(r.end <= 0 \/ r.start >= trimmedLen))
    IN [i \in DOMAIN kept |-> [start |-> Maximum(0, kept[i].start),
                               end |-> Min(trimmedLen, kept[i].end)]]

extractBlockText(segs) ==
    LET raw == blockTextContent(segs)
        pills == WalkRanges(segs, "pill")
        walked == WalkRanges(segs, "bold")
        bolds == IF Len(walked) > 1 THEN mergeBolds(<<walked[1]>>, Tail(walked))
                 ELSE walked
        leadingWS == Len(raw) - Len(trimStart(raw))
        trimmed == trim(raw)
    IN IF leadingWS > 0
       THEN [text |-> trimmed,
             pills |-> adjustLeading(pills, leadingWS, Len(trimmed)),
             bolds |-> adjustLeading(bolds, leadingWS, Len(trimmed))]
       ELSE [text |-> trimmed, pills |-> pills, bolds |-> bolds]

shiftRanges(arr, shift, textLen) ==
    LET moved == [i \in DOMAIN arr |-> [start |-> arr[i].start - shift,
                                        end |-> arr[i].end - shift]]
        kept == SelectSeq(moved, LAMBDA r : r.end > 0 /\ r.start < textLen)
    IN [i \in DOMAIN kept |-> [start |-> Maximum(0, kept[i].start),
                               end |-> Min(textLen, kept[i].end)]]

\* trimLeadingPills without the loop (one pill stripped at most), for comparison
trimLeadingPillsOnce(text, pills, bolds) ==
    IF pills # <<>> /\ pills[1].start = 0
    THEN LET pEnd == pills[1].end
             rest == slice(text, pEnd, Len(text))
             ws == Len(rest) - Len(trimStart(rest))
             newText == trimStart(rest)
             shift == pEnd + ws
         IN [text |-> newText,
             pills |-> shiftRanges(Tail(pills), shift, Len(newText)),
             bolds |-> shiftRanges(bolds, shift, Len(newText))]
    ELSE [text |-> text, pills |-> pills, bolds |-> bolds]

RECURSIVE trimLeadingPills(_, _, _)
trimLeadingPills(text, pills, bolds) ==
    IF pills # <<>> /\ pills[1].start = 0
    THEN LET pEnd == pills[1].end
             rest == slice(text, pEnd, Len(text))
             ws == Len(rest) - Len(trimStart(rest))
             newText == trimStart(rest)
             shift == pEnd + ws
         IN trimLeadingPills(newText,
                             shiftRanges(Tail(pills), shift, Len(newText)),
                             shiftRanges(bolds, shift, Len(newText)))
    ELSE [text |-> text, pills |-> pills, bolds |-> bolds]


\* the leaf blocks of a container in document order, each named by the
\* top-level element g it is in, the LI i of that list (1 when g is no list),
\* and its place c among the element children of the LI
RECURSIVE Concat(_)
Concat(ss) == IF ss = <<>> THEN <<>> ELSE Head(ss) \o Concat(Tail(ss))

LeafPaths(cont) ==
    Concat([g \in DOMAIN cont |->
              Concat([i \in DOMAIN cont[g].items |->
                        [c \in DOMAIN cont[g].items[i] |-> <<g, i, c>>]])])

LeafAt(cont, path) == cont[path[1]].items[path[2]][path[3]]

\* node.closest("li"): the LI the leaf is or is in, <<>> for none
closestLI(cont, path) == IF cont[path[1]].list = "none" THEN <<>> ELSE <<path[1], path[2]>>

\* the walk from node.parentElement to the container: depth counts the UL
\* and OL elements passed, listType and listStart come from the nearest one,
\* listStart is 1 + the number of LI siblings before the leaf's LI
listMeta(cont, path) ==
    IF cont[path[1]].list = "none"
    THEN [depth |-> 0, listType |-> "ul", listStart |-> 1]
    ELSE [depth |-> 1,
          listType |-> cont[path[1]].list,
          listStart |-> IF cont[path[1]].list = "ol"
                        THEN 1 + Cardinality({j \in DOMAIN cont[path[1]].items : j < path[2]})
                        ELSE 1]

\* !closestLI || node === closestLI || closestLI.firstElementChild === node
isFirstBlk(cont, path) ==
    \/ closestLI(cont, path) = <<>>
    \/ LeafAt(cont, path).tag = "LI"
    \/ path[3] = 1

\* node.tagName === "PRE": periods are no sentence boundaries in a code block
isCodeBlockNever(node) == FALSE

isCodeBlock(node) == node.tag = "PRE"

\* no terminator is met
scanBackToStart(text, i) == 0

\* the backwards loop for the sentence start: from index from - 1 down to 0,
\* the index after the first terminator met, 0 when none is met
RECURSIVE scanBack(_, _)
scanBack(text, i) ==
    IF i < 0 THEN 0
    ELSE IF i + 1 <= Len(text) /\ text[i + 1] \in SENTENCE_TERMINATORS THEN i + 1
    ELSE scanBack(text, i - 1)

\* no terminator is met
scanForwardToEnd(text, j) == Len(text)

\* the forwards loop for the sentence end: from index j up, the index after
\* the first terminator met, text.length when none is met
RECURSIVE scanForward(_, _)
scanForward(text, j) ==
    IF j >= Len(text) THEN Len(text)
    ELSE IF text[j + 1] \in SENTENCE_TERMINATORS THEN j + 1
    ELSE scanForward(text, j + 1)

\* a block text with its citation and bold intervals, cut to start at
\* offset from: blockText.slice(from).trim() and the intervals shifted
cutFrom(b, from) ==
    IF from > 0
    THEN [text |-> trim(slice(b.text, from, Len(b.text))),
          pills |-> shiftRanges(b.pills,
                                from + (Len(slice(b.text, from, Len(b.text)))
                                          - Len(trimStart(slice(b.text, from, Len(b.text))))),
                                Len(trim(slice(b.text, from, Len(b.text))))),
          bolds |-> shiftRanges(b.bolds,
                                from + (Len(slice(b.text, from, Len(b.text)))
                                          - Len(trimStart(slice(b.text, from, Len(b.text))))),
                                Len(trim(slice(b.text, from, Len(b.text))))),
          isFirstSent |-> FALSE]
    ELSE [text |-> b.text, pills |-> b.pills, bolds |-> b.bolds, isFirstSent |-> TRUE]

\* a block cut to end at offset to: blockText.slice(0, to).trim()
cutTo(b, to) ==
    IF to < Len(b.text)
    THEN [b EXCEPT !.text = trim(slice(b.text, 0, to)),
                   !.pills = shiftRanges(b.pills, 0, Len(trim(slice(b.text, 0, to)))),
                   !.bolds = shiftRanges(b.bolds, 0, Len(trim(slice(b.text, 0, to))))]
    ELSE b

\* never start the quote with a citation pill
cutLeadingPills(b, first) ==
    IF first /\ b.pills # <<>> /\ b.pills[1].start = 0
    THEN [b EXCEPT !.text = trimLeadingPills(b.text, b.pills, b.bolds).text,
                   !.pills = trimLeadingPills(b.text, b.pills, b.bolds).pills,
                   !.bolds = trimLeadingPills(b.text, b.pills, b.bolds).bolds]
    ELSE b

\* for startBlock: the offset of the sentence of the selection start in the
\* trimmed text of the block, leadWS the white space before it
startBlockFrom(node, r, isStart, text, leadWS) ==
    IF isStart /\ ~isCodeBlock(node) /\ r.startIn
    THEN scanBack(text, Maximum(0, r.startOffset - leadWS) - 1)
    ELSE 0

\* for endBlock: the offset where the sentence of the selection end ends
endBlockTo(node, r, isEnd, text, leadWS) ==
    IF isEnd /\ ~isCodeBlock(node) /\ r.endIn
    THEN scanForward(text, Min(Len(text), Maximum(0, r.endOffset - leadWS)))
    ELSE Len(text)

\* the block after the start of the multi-block loop body has cut it
multiBlockStart(node, r, isStart, b, leadWS) ==
    cutFrom(b, startBlockFrom(node, r, isStart, b.text, leadWS))

multiBlockEnd(node, r, isEnd, b, leadWS) ==
    cutTo(b, endBlockTo(node, r, isEnd, b.text, leadWS))

leadingWhiteSpace(raw) == Len(raw) - Len(trimStart(raw))

\* the body of the multi-block loop up to the test of blockText, for the
\* block node; first: no block has been pushed yet
multiBlockOf(node, r, isStart, isEnd, first) ==
    cutLeadingPills(
        multiBlockEnd(node, r, isEnd,
                      multiBlockStart(node, r, isStart, extractBlockText(node.segs),
                                      leadingWhiteSpace(blockTextContent(node.segs))),
                      leadingWhiteSpace(blockTextContent(node.segs))),
        first)

multiBlock(cont, r, path, isStart, isEnd, first) ==
    multiBlockOf(LeafAt(cont, path), r, isStart, isEnd, first)

\* the descriptor pushed to blockTypes for a block of the multi-block loop
multiBlockType(cont, path, b, prevLI) ==
    LET node == LeafAt(cont, path)
        li == closestLI(cont, path)
        meta == listMeta(cont, path)
        tag == IF li = <<>> THEN node.tag
               ELSE IF li = prevLI THEN "LI_CONT"
               ELSE IF ~b.isFirstSent \/ ~isFirstBlk(cont, path) THEN "LI_CONT"
               ELSE "LI"
    IN [tag |-> tag, depth |-> meta.depth, lineCount |-> lineCount(b.text),
        listType |-> meta.listType, listStart |-> meta.listStart,
        pills |-> b.pills, bolds |-> b.bolds]

\* the multi-block loop over selectedBlocks, at index bi; prevLI is <<>>
\* for null
RECURSIVE multiBlockLoop(_, _, _, _, _, _, _)
multiBlockLoop(cont, r, selected, bi, blocks, types, prevLI) ==
    IF bi > Len(selected) THEN [blocks |-> blocks, blockTypes |-> types]
    ELSE LET b == multiBlock(cont, r, selected[bi], bi = 1, bi = Len(selected),
                             blocks = <<>>)
         IN IF b.text = <<>>
            THEN multiBlockLoop(cont, r, selected, bi + 1, blocks, types, prevLI)
            ELSE multiBlockLoop(cont, r, selected, bi + 1,
                                Append(blocks, b.text),
                                Append(types, multiBlockType(cont, selected[bi], b, prevLI)),
                                closestLI(cont, selected[bi]))


NoContext == [sentence |-> <<>>, blockTypes |-> <<>>, null |-> TRUE]

\* the sentence with the citation and bold intervals of the block adjusted
\* to it: positions of extracted are moved by rangeOffset
singleRanges(extracted, sentence, rangeOffset) ==
    [text |-> sentence,
     pills |-> shiftRanges(extracted.pills, 0 - rangeOffset, Len(sentence)),
     bolds |-> shiftRanges(extracted.bolds, 0 - rangeOffset, Len(sentence))]

\* what the single-block part returns and pushes to blockTypes for the
\* sentence t of the block at path
singleResult(cont, path, startBlock, isFirstSentence, t) ==
    [sentence |-> t.text,
     blockTypes |-> IF isFirstSentence \/ t.pills # <<>> \/ t.bolds # <<>>
                    THEN <<[tag |-> IF isFirstSentence THEN "LI" ELSE startBlock.tag,
                            depth |-> listMeta(cont, path).depth,
                            lineCount |-> lineCount(t.text),
                            listType |-> listMeta(cont, path).listType,
                            listStart |-> listMeta(cont, path).listStart,
                            pills |-> t.pills, bolds |-> t.bolds]>>
                    ELSE <<>>,
     null |-> t.text = <<>>]

\* the single-block part for a block that is no code block, from the
\* bounds of the sentence on
singleProse(cont, path, startBlock, blockText, sentStart, sentEnd) ==
    IF trim(slice(blockText, sentStart, sentEnd)) = <<>> THEN NoContext
    ELSE singleResult(cont, path, startBlock,
                      closestLI(cont, path) # <<>> /\ isFirstBlk(cont, path) /\ sentStart = 0,
                      cutLeadingPills(
                          singleRanges(extractBlockText(startBlock.segs),
                                       trim(slice(blockText, sentStart, sentEnd)),
                                       leadingWhiteSpace(blockText) - sentStart
                                         - leadingWhiteSpace(slice(blockText, sentStart, sentEnd))),
                          TRUE))

\* the single-block part for startBlock; getOffsetInBlock is 0 for a start
\* before the block and beyond the text for an end after it; one: the
\* selection touches one block
singleBlockOf(cont, r, path, startBlock, blockText, one) ==
    IF blockText = <<>> THEN NoContext
    ELSE IF isCodeBlock(startBlock)
    THEN [sentence |-> trim(blockText), blockTypes |-> <<>>, null |-> FALSE]
    ELSE singleProse(cont, path, startBlock, blockText,
                     scanBack(blockText, (IF r.startIn THEN r.startOffset ELSE 0) - 1),
                     scanForward(blockText,
                                 Min(Len(blockText),
                                     IF r.endIn /\ one THEN r.endOffset ELSE Len(blockText))))

\* the single-block part of extractSentenceInContainer
singleBlock(cont, r, selected) ==
    singleBlockOf(cont, r, selected[1], LeafAt(cont, selected[1]),
                  blockTextContent(LeafAt(cont, selected[1]).segs), Len(selected) = 1)

\* selectedBlocks: the leaf blocks range.intersectsNode, those from the one
\* of the start to the one of the end
selectedBlocks(cont, r) == SubSeq(LeafPaths(cont), r.startLeaf, r.endLeaf)

extractSentenceInContainer(cont, r) ==
    LET selected == selectedBlocks(cont, r)
        multi == multiBlockLoop(cont, r, selected, 1, <<>>, <<>>, <<>>)
    IN IF selected = <<>> THEN NoContext
       ELSE IF Len(selected) > 1 /\ multi.blocks # <<>>
       THEN [sentence |-> join(multi.blocks), blockTypes |-> multi.blockTypes,
             null |-> FALSE]
       ELSE singleBlock(cont, r, selected)


(***************************************************************************)
(* content.js: the context renderer.  What it appends to the container is  *)
(* a sequence of elements: "ol" and "ul" lists with a start attribute and  *)
(* LI items, "div" blocks, and "inline" for content appended directly.     *)
(* The content of an item is a sequence of segments: text with the         *)
(* jr-popup-mark, jr-popup-pill and STRONG wrappers it got.                *)
(***************************************************************************)
\* String.indexOf: the first offset at which t occurs in s, -1 for none
indexOf(s, t) ==
    LET at == {k \in 0..(Len(s) - Len(t)) : slice(s, k, k + Len(t)) = t}
    IN IF at = {} THEN -1 ELSE Lowest(at)

\* s.replace(/\s+/g, " ")
RECURSIVE collapseWhiteSpace(_)
collapseWhiteSpace(s) ==
    IF s = <<>> THEN <<>>
    ELSE IF Head(s) \in WhiteSpace
    THEN <<" ">> \o collapseWhiteSpace(trimStart(s))
    ELSE <<Head(s)>> \o collapseWhiteSpace(Tail(s))

\* the search for the selected text in the sentence: matchStart, matchLen
findMatch(sentence, text) ==
    LET directIdx == indexOf(sentence, text)
        normIdx == indexOf(collapseWhiteSpace(sentence), collapseWhiteSpace(text))
    IN IF directIdx # -1 THEN [matchStart |-> directIdx, matchLen |-> Len(text)]
       ELSE IF normIdx # -1
       THEN [matchStart |-> normIdx, matchLen |-> Len(collapseWhiteSpace(text))]
       ELSE [matchStart |-> -1, matchLen |-> 0]

\* a set of numbers as the sorted sequence without duplicates
RECURSIVE sorted(_)
sorted(S) == IF S = {} THEN <<>> ELSE <<Lowest(S)>> \o sorted(S \ {Lowest(S)})

fillWithHighlight(blockText, blockStart, blockEnd, pills, bolds, m) ==
    LET s0 == Maximum(m.matchStart, blockStart) - blockStart
        e0 == Min(m.matchStart + m.matchLen, blockEnd) - blockStart
        hl == m.matchStart # -1 /\ ~(s0 >= e0 \/ s0 < 0)
        hlStart == IF hl THEN s0 ELSE -1
        hlEnd == IF hl THEN e0 ELSE -1
        points == {0, Len(blockText)}
                    \cup (IF hlStart >= 0 THEN {hlStart, hlEnd} ELSE {})
                    \cup UNION {{Maximum(0, pills[p].start),
                                 Min(Len(blockText), pills[p].end)} : p \in DOMAIN pills}
                    \cup UNION {{Maximum(0, bolds[b].start),
                                 Min(Len(blockText), bolds[b].end)} : b \in DOMAIN bolds}
        pts == sorted(points)
        seg(i) == [text |-> slice(blockText, pts[i], pts[i + 1]),
                   mark |-> hlStart >= 0 /\ pts[i] >= hlStart /\ pts[i + 1] <= hlEnd,
                   pill |-> \E j \in DOMAIN pills :
                               pts[i] >= pills[j].start /\ pts[i + 1] <= pills[j].end,
                   bold |-> \E k \in DOMAIN bolds :
                               pts[i] >= bolds[k].start /\ pts[i + 1] <= bolds[k].end]
    IN [i \in 1..(Len(pts) - 1) |-> seg(i)]

\* the plain text, or the text before, the mark, and the text after it
simpleFill(sentence, m) ==
    IF m.matchStart # -1
    THEN SelectSeq(<<[text |-> slice(sentence, 0, m.matchStart), mark |-> FALSE,
                      pill |-> FALSE, bold |-> FALSE],
                     [text |-> slice(sentence, m.matchStart, m.matchStart + m.matchLen),
                      mark |-> TRUE, pill |-> FALSE, bold |-> FALSE],
                     [text |-> slice(sentence, m.matchStart + m.matchLen, Len(sentence)),
                      mark |-> FALSE, pill |-> FALSE, bold |-> FALSE]>>,
                   LAMBDA g : g.mark \/ g.text # <<>>)
    ELSE <<[text |-> sentence, mark |-> FALSE, pill |-> FALSE, bold |-> FALSE]>>

Item(cont, depth, segs) == [cont |-> cont, depth |-> depth, segs |-> segs]

renderSingle(sentence, blockTypes, m) ==
    LET one == Len(blockTypes) = 1
        pills == IF one THEN blockTypes[1].pills ELSE <<>>
        bolds == IF one THEN blockTypes[1].bolds ELSE <<>>
        isBullet == one /\ blockTypes[1].tag = "LI"
        hasSegments == pills # <<>> \/ bolds # <<>>
        filled == fillWithHighlight(sentence, 0, Len(sentence), pills, bolds, m)
    IN IF isBullet
       THEN <<[el |-> blockTypes[1].listType,
               start |-> IF blockTypes[1].listType = "ol" /\ blockTypes[1].listStart > 1
                         THEN blockTypes[1].listStart ELSE 1,
               items |-> <<Item(FALSE, 0, filled)>>]>>
       ELSE IF hasSegments
       THEN <<[el |-> "inline", start |-> 1, items |-> <<Item(FALSE, 0, filled)>>]>>
       ELSE <<[el |-> "inline", start |-> 1,
               items |-> <<Item(FALSE, 0, simpleFill(sentence, m))>>]>>

\* sentence.split("\n")
RECURSIVE split(_)
split(s) ==
    IF \E i \in DOMAIN s : s[i] = NL
    THEN LET i == Lowest({k \in DOMAIN s : s[k] = NL})
         IN <<SubSeq(s, 1, i - 1)>> \o split(SubSeq(s, i + 1, Len(s)))
    ELSE <<s>>

\* the block list of the multi-block renderer: lineCount lines for each
\* descriptor, then one P block for each line left over
RECURSIVE blockListOf(_, _, _)
blockListOf(lines, blockTypes, lineIdx) ==
    IF blockTypes # <<>>
    THEN LET nLines == IF Head(blockTypes).lineCount = 0 THEN 1
                       ELSE Head(blockTypes).lineCount
         IN <<[text |-> join(SubSeq(lines, lineIdx + 1, Min(Len(lines), lineIdx + nLines))),
               meta |-> Head(blockTypes)]>>
              \o blockListOf(lines, Tail(blockTypes), lineIdx + nLines)
    ELSE [k \in 1..(Len(lines) - lineIdx) |->
             [text |-> lines[lineIdx + k],
              meta |-> [tag |-> "P", depth |-> 0, lineCount |-> 1, listType |-> "ul",
                        listStart |-> 1, pills |-> <<>>, bolds |-> <<>>]]]

IsListTag(t) == t = "LI" \/ t = "LI_CONT"

\* the rendering loop over blockList at index i: out is what was appended to
\* the container, open the list that is open (<<>> for none), pos the offset
\* of the block in the sentence
RECURSIVE renderLoop(_, _, _, _, _, _, _)
renderLoop(blockList, i, pos, out, open, minDepth, m) ==
    IF i > Len(blockList) THEN out \o open
    ELSE LET block == blockList[i]
             meta == block.meta
             blockEnd == pos + Len(block.text)
             filled == fillWithHighlight(block.text, pos, blockEnd, meta.pills,
                                         meta.bolds, m)
             relDepth == meta.depth - minDepth
             li == Item(meta.tag = "LI_CONT", IF relDepth > 0 THEN Min(relDepth, 2) ELSE 0,
                        filled)
             closed == IF open # <<>> /\ open[1].el # meta.listType THEN out \o open
                       ELSE out
             list == IF open # <<>> /\ open[1].el = meta.listType THEN open[1]
                     ELSE [el |-> meta.listType,
                           start |-> IF meta.listType = "ol" /\ meta.listStart > 1
                                     THEN meta.listStart ELSE 1,
                           items |-> <<>>]
         IN IF IsListTag(meta.tag)
            THEN renderLoop(blockList, i + 1, blockEnd + 1, closed,
                            <<[list EXCEPT !.items = Append(@, li)]>>, minDepth, m)
            ELSE renderLoop(blockList, i + 1, blockEnd + 1,
                            out \o open
                              \o <<[el |-> "div", start |-> 1,
                                    items |-> <<Item(FALSE, 0, filled)>>]>>,
                            <<>>, minDepth, m)

renderSentenceContext(sentence, text, blockTypes) ==
    LET m == findMatch(sentence, text)
        blockList == blockListOf(split(sentence), blockTypes, 0)
        depths == {blockList[k].meta.depth : k \in {j \in DOMAIN blockList :
                                                     IsListTag(blockList[j].meta.tag)}}
        minDepth == IF depths = {} THEN 1 ELSE Lowest(depths)
    IN IF indexOf(sentence, <<NL>>) = -1 THEN renderSingle(sentence, blockTypes, m)
       ELSE renderLoop(blockList, 1, 0, <<>>, <<>>, minDepth, m)


MAX_DISPLAY_CHARS == 120

truncateText(text, max) ==
    IF Len(text) <= max THEN text ELSE slice(text, 0, max) \o <<"U+2026">>

NoSelRange == [startLeaf |-> 0, startOffset |-> 0, startIn |-> FALSE,
               endLeaf |-> 0, endOffset |-> 0, endIn |-> FALSE]

\* no selection has been made
NoWalkRange == [start |-> 0, end |-> 0]

NoWalk ==
    /\ elements = <<>>
    /\ walkRange = NoWalkRange
    /\ leafBlocks = <<>>
    /\ walkStage = "none"

NoFoundRange == [null |-> TRUE, startNode |-> 0, startOffset |-> 0,
                 endNode |-> 0, endOffset |-> 0]

NoFind ==
    /\ textNodes = <<>>
    /\ searchText = <<>>
    /\ foundRange = NoFoundRange
    /\ findStage = "none"

NoExtract ==
    /\ container = <<>>
    /\ selRange = NoSelRange
    /\ selText = <<>>
    /\ context = NoContext
    /\ rendered = <<>>
    /\ stage = "none"

\* getSelectedTextInAIResponse / the mouseup handler of a popup response:
\* extractSentenceInContainer(range, blockTypes, container)
Extract ==
    /\ stage = "ready"
    /\ context' = extractSentenceInContainer(container, selRange)
    /\ stage' = "extracted"
    /\ UNCHANGED <<container, selRange, selText, rendered>>
    /\ UNCHANGED <<location, page, chatInput, navs, turns, generating, storeVars,
                   lifeVars, domVars, resizeVars, walkVars, findVars>>

\* createPopup / createChainedPopup: the context blockquote is filled
Render ==
    /\ stage = "extracted"
    /\ rendered' = IF context.null \/ context.sentence = <<>>
                   THEN <<[el |-> "inline", start |-> 1,
                           items |-> <<Item(FALSE, 0,
                                            <<[text |-> truncateText(selText, MAX_DISPLAY_CHARS),
                                               mark |-> FALSE, pill |-> FALSE,
                                               bold |-> FALSE]>>)>>]>>
                   ELSE renderSentenceContext(context.sentence, selText, context.blockTypes)
    /\ stage' = "rendered"
    /\ UNCHANGED <<container, selRange, selText, context>>
    /\ UNCHANGED <<location, page, chatInput, navs, turns, generating, storeVars,
                   lifeVars, domVars, resizeVars, walkVars, findVars>>

\* inline content: at most n pieces, each a text node, a text node in STRONG,
\* or a citation pill, with its characters from Data
InlineContent(Data, n) ==
    UNION {[1..k -> [kind : {"text", "bold", "pill"}, data : Data]] : k \in 1..n}

Block(tag, segs) == [tag |-> tag, segs |-> segs]

\* a top-level leaf block, and a list of LI elements (each the sequence of
\* its leaf blocks)
Single(block) == [list |-> "none", items |-> <<<<block>>>>]
List(type, items) == [list |-> type, items |-> items]

\* the characters of a leaf block selected by range r, leaf number k of
\* the container
SelectedPart(cont, r, k) ==
    LET raw == blockTextContent(LeafAt(cont, LeafPaths(cont)[k]).segs)
    IN slice(raw,
             IF k = r.startLeaf /\ r.startIn THEN r.startOffset ELSE 0,
             IF k = r.endLeaf /\ r.endIn THEN r.endOffset ELSE Len(raw))

\* selection.toString().trim(): the selected characters, the parts of two
\* blocks separated by sep; collapsed: white space as it is rendered
RECURSIVE joinWith(_, _)
joinWith(parts, sep) ==
    IF parts = <<>> THEN <<>>
    ELSE IF Len(parts) = 1 THEN parts[1]
    ELSE parts[1] \o sep \o joinWith(Tail(parts), sep)

SelectionString(cont, r, sep, collapsed) ==
    LET parts == [k \in 1..(r.endLeaf - r.startLeaf + 1) |->
                    LET part == SelectedPart(cont, r, r.startLeaf + k - 1)
                    IN IF collapsed THEN collapseWhiteSpace(part) ELSE part]
    IN trim(joinWith(parts, sep))

\* the Ranges over a container: start and end in a leaf block at an offset of
\* its text, or in an element above the leaf blocks (before the first
\* selected block, after the last)
SelRanges(cont) ==
    LET paths == LeafPaths(cont)
        lens == [k \in DOMAIN paths |-> Len(blockTextContent(LeafAt(cont, paths[k]).segs))]
        starts(a) == {<<TRUE, o>> : o \in 0..lens[a]} \cup {<<FALSE, 0>>}
        ends(b) == {<<TRUE, o>> : o \in 0..lens[b]} \cup {<<FALSE, lens[b]>>}
        pairs(a, b) == {se \in starts(a) \X ends(b) :
                          (a = b /\ se[1][1] /\ se[2][1]) => se[1][2] < se[2][2]}
    IN UNION {UNION {{[startLeaf |-> a, startOffset |-> se[1][2], startIn |-> se[1][1],
                       endLeaf |-> b, endOffset |-> se[2][2], endIn |-> se[2][1]] :
                         se \in pairs(a, b)} :
                     b \in a..Len(paths)} :
              a \in DOMAIN paths}


\* the characters of the pieces of inline content tried
Data == {<<"a">>, <<"b", ".">>, <<" ", "c">>, <<" ">>, <<"d", NL>>}
ItemData == {<<"a", ".", "b">>}

\* one leaf block: a paragraph of up to MaxPieces pieces, or a code block
\* of up to two
OneBlockContainers ==
    {<<Single(Block("P", segs))>> : segs \in InlineContent(Data, MaxPieces)}
      \cup {<<Single(Block("PRE", segs))>> : segs \in InlineContent(Data, 2)}

\* two paragraphs, of up to two pieces and of one piece; a paragraph and a
\* code block, or two code blocks, of two sentences each
TwoBlockContainers ==
    {<<Single(Block("P", s1)), Single(Block("P", s2))>> :
        s1 \in InlineContent(Data \ {<<"a">>}, 2),
        s2 \in InlineContent(Data \ {<<" ", "c">>}, 1)}
      \cup {<<Single(Block(t1, <<[kind |-> "text", data |-> d]>>)),
              Single(Block(t2, <<[kind |-> "text", data |-> d]>>))>> :
                t1 \in {"P", "PRE"}, t2 \in {"P", "PRE"}, d \in ItemData}

\* three paragraphs, the one in the middle with white space at its ends
ThreeBlockContainers ==
    {<<Single(Block("P", <<[kind |-> "text", data |-> d]>>)),
       Single(Block("P", mid)),
       Single(Block("P", <<[kind |-> "text", data |-> d]>>))>> :
         d \in ItemData, mid \in InlineContent({<<" ", "c">>, <<"d", NL>>}, 2)}

\* a list of MaxItems LI elements: an LI is a leaf block itself or has two
\* paragraphs; before the list there may be a paragraph
ListItems ==
    {<<Block("LI", <<[kind |-> "text", data |-> d]>>)>> : d \in ItemData}
      \cup {<<Block("P", <<[kind |-> "text", data |-> d]>>),
              Block("P", <<[kind |-> "text", data |-> d]>>)>> : d \in ItemData}

\* an LI of two sentences, one of them bold text or a citation pill; the LI
\* is a leaf block itself or has two such paragraphs
MarkedItems ==
    LET content == UNION {{<<[kind |-> "text", data |-> <<"b", ".">>],
                              [kind |-> k, data |-> <<"a">>]>>,
                            <<[kind |-> k, data |-> <<"b", ".">>],
                              [kind |-> "text", data |-> <<"a">>]>>} :
                             k \in {"bold", "pill"}}
    IN {<<Block("LI", segs)>> : segs \in content}
         \cup {<<Block("P", segs), Block("P", segs)>> : segs \in content}

ListContainers ==
    {<<List(type, items)>> : type \in {"ol", "ul"}, items \in [1..MaxItems -> ListItems]}
      \cup {<<List(type, <<item>>)>> : type \in {"ol", "ul"}, item \in MarkedItems}
      \cup {<<Single(Block("P", <<[kind |-> "text", data |-> <<"a">>]>>)),
              List("ol", items)>> : items \in [1..2 -> ListItems]}

BlockContainers ==
    OneBlockContainers \cup TwoBlockContainers \cup ThreeBlockContainers \cup ListContainers

\* the user selects text in a container: getSelectedTextInAIResponse, or the
\* mouseup handler of a popup response, goes on when the text is not blank
Select ==
    /\ stage = "none"
    /\ container' \in BlockContainers
    /\ selRange' \in SelRanges(container')
    /\ selText' \in {SelectionString(container', selRange', sep, collapsed) :
                       sep \in {<<NL>>, <<NL, NL>>}, collapsed \in BOOLEAN}
    /\ selText' # <<>>
    /\ stage' = "ready"
    /\ UNCHANGED <<context, rendered>>
    /\ UNCHANGED <<location, page, chatInput, navs, turns, generating, storeVars,
                   lifeVars, domVars, resizeVars, walkVars, findVars>>

InitExtract ==
    /\ store = <<>>
    /\ ctxValid = TRUE
    /\ ops = [s \in Slots |-> Idle]
    /\ nextId = 1
    /\ expected = {}
    /\ ret = NoRet
    /\ calls = 0
    /\ turns = <<"user", "ai">>
    /\ generating = FALSE
    /\ hidden = {}
    /\ popups = [p \in Popups |-> NoPopupEl]
    /\ spans = [g \in Groups |-> NoGroup]
    /\ watches = [w \in Watches |-> NoWatchRec]
    /\ activePopup = NoPopup
    /\ activeSourceHighlights = NoSpans
    /\ activeHighlightId = NoId
    /\ popupStack = <<>>
    /\ completedHighlights = [i \in Ids |-> NoEntry]
    /\ cancelResponseWatch = NoWatch
    /\ lastKnownUrl = 1
    /\ restoreTimer = 0
    /\ scheduled = 0
    /\ restores = [r \in Restores |-> NoRestore]
    /\ location = 1
    /\ page = 1
    /\ chatInput = TRUE
    /\ navs = 0
    /\ NoDom
    /\ NoResize
    /\ NoExtract
    /\ NoWalk
    /\ NoFind

NextExtract ==
    \/ Select
    \/ Extract
    \/ Render

SpecExtract == InitExtract /\ [][NextExtract]_vars

(***************************************************************************)
(* content.js: the leafWalker of extractSentenceInContainer over a tree of *)
(* elements.  The elements inside the container are a sequence in document *)
(* order; an element has its tag and its parent (an earlier element, 0:    *)
(* the container).  Every element but a list has a text node of its own    *)
(* before its first child element; the Range starts inside the text of     *)
(* element start and ends inside the text of element end.                  *)
(***************************************************************************)
BLOCK_TAGS == {"P", "LI", "H1", "H2", "H3", "H4", "H5", "H6",
               "PRE", "BLOCKQUOTE", "TD", "TH"}

\* element m is a proper descendant of element n
RECURSIVE IsInside(_, _, _)
IsInside(els, m, n) ==
    IF m = 0 THEN FALSE
    ELSE els[m].parent = n \/ IsInside(els, els[m].parent, n)

\* the last element of the subtree of n, in document order
lastInside(els, n) ==
    CHOOSE l \in DOMAIN els :
        /\ l = n \/ IsInside(els, l, n)
        /\ \A m \in DOMAIN els : IsInside(els, m, n) => m <= l

\* range.intersectsNode(n): n does not end before the start of the Range
\* and does not begin after its end
intersectsNode(els, r, n) == n <= r.end /\ lastInside(els, n) >= r.start

\* acceptNode of the leafWalker: FILTER_ACCEPT (TRUE) or FILTER_SKIP, which
\* goes on to the children; the loop looks at the element children of node
acceptNode(els, n) ==
    /\ els[n].tag \in BLOCK_TAGS
    /\ \A child \in DOMAIN els :
           els[child].parent = n => els[child].tag \notin BLOCK_TAGS

\* the loop over leafWalker.nextNode(): selectedBlocks
leafWalk(els, r) ==
    SelectSeq([n \in DOMAIN els |-> n],
              LAMBDA n : acceptNode(els, n) /\ intersectsNode(els, r, n))

\* the trees of at most MaxElems elements that markdown is rendered to:
\* paragraphs, block quotes of paragraphs, lists of items that hold text,
\* paragraphs and lists, and STRONG inside text
WalkTags == {"P", "LI", "UL", "BLOCKQUOTE", "STRONG"}

MayHold(parentTag, tag) ==
    CASE parentTag = "UL" -> tag = "LI"
      [] parentTag = "LI" -> tag \in {"P", "UL", "STRONG"}
      [] parentTag = "BLOCKQUOTE" -> tag = "P"
      [] OTHER -> tag = "STRONG"

ElementTrees ==
    {els \in UNION {[1..n -> [tag : WalkTags, parent : 0..(MaxElems - 1)]] :
                      n \in 1..MaxElems} :
        \A k \in DOMAIN els :
            /\ els[k].parent < k
            /\ IF els[k].parent = 0
               THEN els[k].tag \in {"P", "UL", "BLOCKQUOTE"}
               ELSE MayHold(els[els[k].parent].tag, els[k].tag)
            \* document order: the parent is the element before or one of
            \* its ancestors
            /\ k > 1 => \/ els[k].parent = k - 1
                        \/ els[k].parent = 0
                        \/ IsInside(els, k - 1, els[k].parent)}

RangesOver(els) ==
    {[start |-> a, end |-> b] : a, b \in {n \in DOMAIN els : els[n].tag # "UL"}}
      \cap {r \in [start : DOMAIN els, end : DOMAIN els] : r.start <= r.end}

\* a selection is made in the container
SelectIn ==
    /\ walkStage = "none"
    /\ elements' \in ElementTrees
    /\ walkRange' \in RangesOver(elements')
    /\ walkStage' = "ready"
    /\ UNCHANGED leafBlocks
    /\ UNCHANGED <<location, page, chatInput, navs, turns, generating, storeVars,
                   lifeVars, domVars, resizeVars, extractVars, findVars>>

\* extractSentenceInContainer up to `if (selectedBlocks.length === 0)`
LeafWalk ==
    /\ walkStage = "ready"
    /\ leafBlocks' = leafWalk(elements, walkRange)
    /\ walkStage' = "walked"
    /\ UNCHANGED <<elements, walkRange>>
    /\ UNCHANGED <<location, page, chatInput, navs, turns, generating, storeVars,
                   lifeVars, domVars, resizeVars, extractVars, findVars>>

NextWalk ==
    \/ SelectIn
    \/ LeafWalk

SpecWalk == InitExtract /\ [][NextWalk]_vars

(***************************************************************************)
(* content.js: findTextRange over the text nodes under a root, each the    *)
(* sequence of its characters (a text node may be empty).                  *)
(***************************************************************************)
\* nodes[i].start: the length of fullText when node i is pushed
nodeStart(tns, i) == Len(Concat(SubSeq(tns, 1, i - 1)))

\* a loop that takes the end node only when the match ends before its end
findLoopEndInside(tns, idx, endIdx, i, startNode, startOffset) ==
    LET from == {k \in i..Len(tns) : idx < nodeStart(tns, k) + Len(tns[k])}
        ends == {k \in i..Len(tns) : endIdx < nodeStart(tns, k) + Len(tns[k])}
    IN IF ends = {} \/ from = {} THEN NoFoundRange
       ELSE [null |-> FALSE,
             startNode |-> Lowest(from), startOffset |-> idx - nodeStart(tns, Lowest(from)),
             endNode |-> Lowest(ends), endOffset |-> endIdx - nodeStart(tns, Lowest(ends))]

\* the for loop of findTextRange at index i, and what is returned after it
\* (startNode 0: null)
RECURSIVE findLoop(_, _, _, _, _, _)
findLoop(tns, idx, endIdx, i, startNode, startOffset) ==
    IF i > Len(tns) THEN NoFoundRange
    ELSE LET nodeEnd == nodeStart(tns, i) + Len(tns[i])
             starts == startNode = 0 /\ idx < nodeEnd
             sn == IF starts THEN i ELSE startNode
             so == IF starts THEN idx - nodeStart(tns, i) ELSE startOffset
         IN IF endIdx <= nodeEnd
            THEN IF sn = 0 THEN NoFoundRange
                 ELSE [null |-> FALSE, startNode |-> sn, startOffset |-> so,
                       endNode |-> i, endOffset |-> endIdx - nodeStart(tns, i)]
            ELSE findLoop(tns, idx, endIdx, i + 1, sn, so)

findTextRange(tns, text) ==
    IF Len(tns) = 0 THEN NoFoundRange
    ELSE IF indexOf(Concat(tns), text) = -1 THEN NoFoundRange
    ELSE findLoop(tns, indexOf(Concat(tns), text),
                  indexOf(Concat(tns), text) + Len(text), 1, 0, 0)

\* the characters of text nodes and of search texts
Letters == {"a", "b"}

Strings(n) == UNION {[1..k -> Letters] : k \in 0..n}

\* restoreHighlightInElement asks for the text of a stored highlight in a
\* root: the text is a trimmed selection, so it is not empty
Search ==
    /\ findStage = "none"
    /\ textNodes' \in UNION {[1..n -> Strings(MaxLen)] : n \in 0..MaxTextNodes}
    /\ searchText' \in Strings(MaxSearch) \ {<<>>}
    /\ findStage' = "ready"
    /\ UNCHANGED foundRange
    /\ UNCHANGED <<location, page, chatInput, navs, turns, generating, storeVars,
                   lifeVars, domVars, resizeVars, extractVars, walkVars>>

FindTextRange ==
    /\ findStage = "ready"
    /\ foundRange' = findTextRange(textNodes, searchText)
    /\ findStage' = "found"
    /\ UNCHANGED <<textNodes, searchText>>
    /\ UNCHANGED <<location, page, chatInput, navs, turns, generating, storeVars,
                   lifeVars, domVars, resizeVars, extractVars, walkVars>>

NextFind ==
    \/ Search
    \/ FindTextRange

SpecFind == InitExtract /\ [][NextFind]_vars




Init ==
    /\ store = <<>>
    /\ ctxValid = TRUE
    /\ ops = [s \in Slots |-> Idle]
    /\ nextId = 1
    /\ expected = {}
    /\ ret = NoRet
    /\ calls = 0
    /\ turns = <<"user", "ai">>
    /\ generating = FALSE
    /\ hidden = {}
    /\ popups = [p \in Popups |-> NoPopupEl]
    /\ spans = [g \in Groups |-> NoGroup]
    /\ watches = [w \in Watches |-> NoWatchRec]
    /\ activePopup = NoPopup
    /\ activeSourceHighlights = NoSpans
    /\ activeHighlightId = NoId
    /\ popupStack = <<>>
    /\ completedHighlights = [i \in Ids |-> NoEntry]
    /\ cancelResponseWatch = NoWatch
    /\ lastKnownUrl = 1
    /\ restoreTimer = 0
    /\ scheduled = 0
    /\ restores = [r \in Restores |-> NoRestore]
    /\ location = 1
    /\ page = 1
    /\ chatInput = TRUE
    /\ navs = 0
    /\ NoDom
    /\ NoResize
    /\ NoExtract
    /\ NoWalk
    /\ NoFind

NextStore ==
    \/ \E p \in {NoId} \cup Ids, u \in Urls : CallSave(p, u)
    \/ CallGetHighlights
    \/ \E p \in 1..(nextId - 1) : CallGetChildHighlights(p)
    \/ \E u \in Urls : CallGetHighlightsByUrl(u)
    \/ \E i \in 1..(nextId - 1) : CallDelete(i)
    \/ \E i \in 1..(nextId - 1) : CallUpdate(i)
    \/ CallClear
    \/ \E s \in Slots : GetResolves(s)
    \/ \E s \in Slots : SetResolves(s)
    \/ ContextInvalidated

SpecStore == Init /\ [][NextStore]_vars

Next ==
    \/ \E ok \in BOOLEAN : SelectText(ok)
    \/ ClickOutside
    \/ Escape
    \/ Send
    \/ \E g \in Groups : ClickDoneSpan(g)
    \/ \E p \in Popups, ok \in BOOLEAN : SelectInPopup(p, ok)
    \/ \E w \in Watches : Poll(w)
    \/ HostUserTurn
    \/ HostAiTurn
    \/ HostFinish
    \/ \E s \in Slots : GetResolves(s)
    \/ \E s \in Slots : SetResolves(s)

Spec == Init /\ [][Next]_vars

\* the behaviours of Spec in which highlightRange wraps every selection
NextWrapped ==
    \/ SelectText(TRUE)
    \/ ClickOutside
    \/ Escape
    \/ Send
    \/ \E g \in Groups : ClickDoneSpan(g)
    \/ \E p \in Popups : SelectInPopup(p, TRUE)
    \/ \E w \in Watches : Poll(w)
    \/ HostUserTurn
    \/ HostAiTurn
    \/ HostFinish
    \/ \E s \in Slots : GetResolves(s)
    \/ \E s \in Slots : SetResolves(s)

SpecWrapped == Init /\ [][NextWrapped]_vars

\* the behaviours of the script on a host page whose chat input is not found
\* by SELECTORS.chatInput
InitSend ==
    /\ store = <<>>
    /\ ctxValid = TRUE
    /\ ops = [s \in Slots |-> Idle]
    /\ nextId = 1
    /\ expected = {}
    /\ ret = NoRet
    /\ calls = 0
    /\ turns = <<"user", "ai">>
    /\ generating = FALSE
    /\ hidden = {}
    /\ popups = [p \in Popups |-> NoPopupEl]
    /\ spans = [g \in Groups |-> NoGroup]
    /\ watches = [w \in Watches |-> NoWatchRec]
    /\ activePopup = NoPopup
    /\ activeSourceHighlights = NoSpans
    /\ activeHighlightId = NoId
    /\ popupStack = <<>>
    /\ completedHighlights = [i \in Ids |-> NoEntry]
    /\ cancelResponseWatch = NoWatch
    /\ lastKnownUrl = 1
    /\ restoreTimer = 0
    /\ scheduled = 0
    /\ restores = [r \in Restores |-> NoRestore]
    /\ location = 1
    /\ page = 1
    /\ chatInput = FALSE
    /\ navs = 0
    /\ NoDom
    /\ NoResize
    /\ NoExtract
    /\ NoWalk
    /\ NoFind

SpecSend == InitSend /\ [][Next]_vars

\* highlightRange and removeSourceHighlight applied to every container and
\* every Range over it
InitDom ==
    /\ store = <<>>
    /\ ctxValid = TRUE
    /\ ops = [s \in Slots |-> Idle]
    /\ nextId = 1
    /\ expected = {}
    /\ ret = NoRet
    /\ calls = 0
    /\ turns = <<"user", "ai">>
    /\ generating = FALSE
    /\ hidden = {}
    /\ popups = [p \in Popups |-> NoPopupEl]
    /\ spans = [g \in Groups |-> NoGroup]
    /\ watches = [w \in Watches |-> NoWatchRec]
    /\ activePopup = NoPopup
    /\ activeSourceHighlights = NoSpans
    /\ activeHighlightId = NoId
    /\ popupStack = <<>>
    /\ completedHighlights = [i \in Ids |-> NoEntry]
    /\ cancelResponseWatch = NoWatch
    /\ lastKnownUrl = 1
    /\ restoreTimer = 0
    /\ scheduled = 0
    /\ restores = [r \in Restores |-> NoRestore]
    /\ location = 1
    /\ page = 1
    /\ chatInput = TRUE
    /\ navs = 0
    /\ nodes \in Containers
    /\ range \in Ranges(nodes)
    /\ wrappers = <<>>
    /\ wrapPhase = "ready"
    /\ textBefore = textContent(nodes)
    /\ NoResize
    /\ NoExtract
    /\ NoWalk
    /\ NoFind

NextDom ==
    \/ WrapRange
    \/ UnwrapRange

SpecDom == InitDom /\ [][NextDom]_vars

\* popups opened and resized by their edges in windows of several widths
InitResize ==
    /\ store = <<>>
    /\ ctxValid = TRUE
    /\ ops = [s \in Slots |-> Idle]
    /\ nextId = 1
    /\ expected = {}
    /\ ret = NoRet
    /\ calls = 0
    /\ turns = <<"user", "ai">>
    /\ generating = FALSE
    /\ hidden = {}
    /\ popups = [p \in Popups |-> NoPopupEl]
    /\ spans = [g \in Groups |-> NoGroup]
    /\ watches = [w \in Watches |-> NoWatchRec]
    /\ activePopup = NoPopup
    /\ activeSourceHighlights = NoSpans
    /\ activeHighlightId = NoId
    /\ popupStack = <<>>
    /\ completedHighlights = [i \in Ids |-> NoEntry]
    /\ cancelResponseWatch = NoWatch
    /\ lastKnownUrl = 1
    /\ restoreTimer = 0
    /\ scheduled = 0
    /\ restores = [r \in Restores |-> NoRestore]
    /\ location = 1
    /\ page = 1
    /\ chatInput = TRUE
    /\ navs = 0
    /\ NoDom
    /\ NoExtract
    /\ NoWalk
    /\ NoFind
    /\ innerWidth \in Viewports
    /\ popupStyle = NoStyle
    /\ drag = NoDrag
    /\ customPopupWidthL1 = 0
    /\ customPopupWidthChained = 0
    /\ drags = 0

NextResize ==
    \/ \E chained \in BOOLEAN : OpenPopup(chained)
    \/ \E w \in Viewports : WindowResize(w)
    \/ \E edge \in {"left", "right"} : EdgeMouseDown(edge)
    \/ \E dx \in Deltas : DragMove(dx)
    \/ DragUp

SpecResize == InitResize /\ [][NextResize]_vars

(***************************************************************************)
(* SpecNav: a page that has stored highlights, navigation between          *)
(* conversations, the restore fetches and timers, and the gestures that    *)
(* open and dismiss popups.                                                *)
(***************************************************************************)
\* a stored top-level highlight of conversation u: found says whether the
\* conversation still shows the quoted text
Stored(id, u, found, q, r) ==
    NewHighlight(id, [n |-> 10 + id, src |-> IF found THEN PageMarkup(u) ELSE Edited],
                 Null, r, u, NoId, SourceTurn, q, r)

\* a stored chained highlight, selected in the answer of highlight parentId
StoredChild(id, u, parentId, html) ==
    NewHighlight(id, [n |-> 10 + id, src |-> html], Null, 6, u, parentId, -1, 5, 6)

\* the Stores the script starts with: two highlights saved in earlier visits
\* (two of one conversation, one of them edited away since; one each of two
\* conversations; a highlight and a chained highlight in its answer)
NavStores ==
    {<<Stored(1, 1, TRUE, 3, 4), Stored(2, 1, FALSE, 5, 6)>>,
     <<Stored(1, 1, FALSE, 3, 4), Stored(2, 1, TRUE, 5, 6)>>,
     <<Stored(1, 1, TRUE, 3, 4), Stored(2, 2, TRUE, 5, 6)>>,
     <<Stored(1, 1, TRUE, 3, 4), StoredChild(2, 1, 1, 4)>>}

\* the script has started in a page whose turns are not rendered yet: the
\* fetch of the initial restoreHighlights() is pending
InitNav ==
    /\ store \in NavStores
    /\ ctxValid = TRUE
    /\ ops = [s \in Slots |-> IF s = 1
                              THEN [Idle EXCEPT !.kind = "getHighlightsByUrl",
                                                !.pc = "get", !.arg = 1, !.cb = TRUE]
                              ELSE Idle]
    /\ nextId = 3
    /\ expected = {1, 2}
    /\ ret = NoRet
    /\ calls = 0
    /\ turns = <<>>
    /\ generating = FALSE
    /\ hidden = {}
    /\ popups = [p \in Popups |-> NoPopupEl]
    /\ spans = [g \in Groups |-> NoGroup]
    /\ watches = [w \in Watches |-> NoWatchRec]
    /\ activePopup = NoPopup
    /\ activeSourceHighlights = NoSpans
    /\ activeHighlightId = NoId
    /\ popupStack = <<>>
    /\ completedHighlights = [i \in Ids |-> NoEntry]
    /\ cancelResponseWatch = NoWatch
    /\ lastKnownUrl = 1
    /\ restoreTimer = 0
    /\ scheduled = 0
    /\ restores = [r \in Restores |-> NoRestore]
    /\ location = 1
    /\ page = 0
    /\ chatInput = TRUE
    /\ navs = 0
    /\ NoDom
    /\ NoResize
    /\ NoExtract
    /\ NoWalk
    /\ NoFind

NextNav ==
    \/ \E u \in Urls : Navigate(u)
    \/ ScheduledRestore
    \/ \E r \in Restores : RestoreTimer(r)
    \/ HostUnrender
    \/ HostRender
    \/ \E s \in Slots : GetResolves(s)
    \/ \E ok \in BOOLEAN : SelectText(ok)
    \/ Send
    \/ \E g \in Groups : ClickDoneSpan(g)

SpecNav == InitNav /\ [][NextNav]_vars

(***************************************************************************)
(* Properties                                                              *)
(***************************************************************************)
\* the wrapper array highlightRange returned for the selection watch w was
\* started for (the wrappers of its popup)
Own(w) == popups[watches[w].popup].wrappers

\* this step is a poll tick of w that ends it
TimedOut(w) == watches[w].state = "running" /\ watches'[w].outcome = "timeout"
Captured(w) == watches[w].state = "running" /\ watches'[w].outcome = "captured"

\* popup p shows the loading indicator of watch w, which is still attached
Loading(p, w) ==
    /\ popups[p].state = "mounted"
    /\ popups[p].mode = "loading"
    /\ watches[w].state = "running"
    /\ watches[w].popup = p
    /\ ~watches[w].detached

\* C1: dismissing a popup in Loading state detaches its watch: the watch keeps
\* polling, the highlight is registered in completedHighlights without an
\* answer, its spans stay wrapped and carry the done class and the highlight
\* id, hidden turns stay hidden; and when a detached watch captures, the
\* registered entry receives the answer.
C1_DismissDetaches ==
    [][\A w \in Watches :
        /\ \A p \in Popups :
             (Loading(p, w) /\ popups'[p].state = "removed") =>
                /\ watches'[w].state = "running"
                /\ watches'[w].detached
                /\ watches'[w].detachedHlId # NoId
                /\ completedHighlights'[watches'[w].detachedHlId].present
                /\ completedHighlights'[watches'[w].detachedHlId].responseHTML = Null
                /\ Own(w) # NoSpans =>
                      /\ spans'[Own(w)].state = "wrapped"
                      /\ spans'[Own(w)].done
                      /\ spans'[Own(w)].id = watches'[w].detachedHlId
                /\ hidden \subseteq hidden'
        /\ (Captured(w) /\ watches[w].detached
              /\ completedHighlights[watches[w].detachedHlId].present) =>
                completedHighlights'[watches[w].detachedHlId] =
                    [completedHighlights[watches[w].detachedHlId]
                        EXCEPT !.responseHTML = watches'[w].responseTurn]
      ]_vars

\* C2: when an attached watch reaches maxAttempts polls without a capturable
\* answer, that poll replaces the loading indicator of its popup by the timeout
\* message, leaves none of the turns the watch hid hidden, and stops the watch,
\* which never polls again (so the message is written once).
C2_AttachedTimeout ==
    [][\A w \in Watches :
        /\ (TimedOut(w) /\ ~watches[w].detached) =>
              /\ watches[w].attempts + 1 = maxAttempts
              /\ popups[watches[w].popup].mode = "loading"
              /\ popups'[watches[w].popup].mode = "timeout"
              /\ watches'[w].questionTurn \notin hidden'
              /\ watches'[w].responseTurn \notin hidden'
              /\ watches'[w].state = "stopped"
        /\ watches[w].outcome = "timeout" => watches'[w] = watches[w]
      ]_vars

C2_Witness ==
    \E w \in Watches :
        /\ watches[w].outcome = "timeout"
        /\ ~watches[w].detached
        /\ popups[watches[w].popup].mode = "timeout"
        /\ watches[w].questionTurn # 0
        /\ watches[w].questionTurn \notin hidden

\* C3: when a detached watch times out, its highlight id is no key of
\* completedHighlights any more, the turns it hid are not hidden, and no span
\* in the document carries that id or is still wrapped for that highlight.
C3_RollbackComplete ==
    [][\A w \in Watches :
        (TimedOut(w) /\ watches[w].detached /\ watches[w].detachedHlId # NoId) =>
            /\ ~completedHighlights'[watches[w].detachedHlId].present
            /\ watches'[w].questionTurn \notin hidden'
            /\ watches'[w].responseTurn \notin hidden'
            /\ \A g \in Groups :
                 ~ /\ spans'[g].id = watches[w].detachedHlId
                   /\ spans'[g].state = "wrapped"
                   /\ spans'[g].home # NoPopup => popups'[spans'[g].home].state = "mounted"
            /\ Own(w) # NoSpans => spans'[Own(w)].state # "wrapped"
      ]_vars

\* C4: a full cancel of a watch leaves none of the turns it hid hidden and
\* stops it; and in every state a poll tick of a cancelled watch changes
\* nothing: no turn hidden, no highlight registered, no Store call, no new timer.
C4_FullCancel ==
    /\ [](\A w \in Watches : watches[w].cancelled => poll(Cur, w) = Cur)
    /\ [][\A w \in Watches :
            (~watches[w].cancelled /\ watches'[w].cancelled) =>
                /\ watches'[w].questionTurn \notin hidden'
                /\ watches'[w].responseTurn \notin hidden'
                /\ watches'[w].state = "stopped"
         ]_vars

C4_Witness ==
    \E w \in Watches :
        /\ watches[w].cancelled
        /\ watches[w].state = "stopped"
        /\ watches[w].questionTurn # 0
        /\ watches[w].questionTurn \notin hidden

\* C5: a watch captures only from the turn two past its baseline count, which
\* is an AI turn, and only when the host is not generating: the captured answer
\* has been started and finished.
C5_CaptureWhenFinished ==
    [][\A w \in Watches :
        Captured(w) =>
            /\ watches'[w].responseTurn > watches[w].turnsBefore
            /\ watches'[w].responseTurn \in DOMAIN turns
            /\ turns[watches'[w].responseTurn] = "ai"
            /\ ~generating
      ]_vars

C5_Witness ==
    \E w \in Watches :
        /\ watches[w].outcome = "captured"
        /\ watches[w].responseTurn = watches[w].turnsBefore + 2
        /\ watches[w].responseTurn \in hidden
        /\ ~generating

\* C6: every capture records the highlight with its answer in
\* completedHighlights under the id it saves, marks the spans wrapped for it
\* with that id and the done class, and starts exactly one saveHighlight with
\* that id, the quoted text, the parent id and the turn numbers.
C6_CaptureRecords ==
    [][\A w \in Watches :
        Captured(w) =>
            /\ watches'[w].hlId # NoId
            /\ completedHighlights'[watches'[w].hlId].present
            /\ completedHighlights'[watches'[w].hlId].responseHTML = watches'[w].responseTurn
            /\ Own(w) # NoSpans =>
                  /\ spans'[Own(w)].done
                  /\ spans'[Own(w)].id = watches'[w].hlId
            /\ Cardinality({s \in Slots :
                   /\ ops[s].kind = "idle"
                   /\ ops'[s].kind = "saveHighlight"
                   /\ ops'[s].rec.id = watches'[w].hlId
                   /\ ops'[s].rec.text = watches[w].text
                   /\ ops'[s].rec.parentId = watches[w].parentId
                   /\ ops'[s].rec.responseIndex = watches'[w].responseTurn}) = 1
      ]_vars

\* C7: while another watch is in flight, a poll tick of watch w changes only
\* the spans wrapped for its own selection, only its own popup or the open
\* popup whose spans carry its highlight id, and only the completedHighlights
\* entry of its own id, registered with its own spans.
C7_OwnSpansOnly ==
    [][\A w \in Watches :
        (/\ watches[w].state = "running"
         /\ watches'[w].attempts = watches[w].attempts + 1
         /\ \E v \in Watches \ {w} : watches[v].state = "running") =>
            /\ \A g \in Groups : spans'[g] # spans[g] => g = Own(w)
            /\ \A p \in Popups : popups'[p] # popups[p] =>
                   \/ p = watches[w].popup
                   \/ /\ watches[w].detached
                      /\ p = activePopup
                      /\ activeSourceHighlights # NoSpans
                      /\ spans[activeSourceHighlights].id = watches[w].detachedHlId
            /\ \A i \in Ids : completedHighlights'[i] # completedHighlights[i] =>
                   /\ i \in {watches'[w].hlId, watches[w].detachedHlId}
                   /\ completedHighlights'[i].present =>
                          completedHighlights'[i].spans = Own(w)
      ]_vars

\* C8: once every Store operation has completed, the Store holds every record
\* that a completed saveHighlight saved and no completed delete removed.
C8_NoWriteLost ==
    (\A s \in Slots : ops[s].kind = "idle") => expected \subseteq StoreIds(store)

\* the parentId chain of the record with id x leads back to id
ParentOf(highlights, x) ==
    IF \E i \in DOMAIN highlights : highlights[i].id = x
    THEN highlights[CHOOSE i \in DOMAIN highlights : highlights[i].id = x].parentId
    ELSE NoId

RECURSIVE ChainLeadsTo(_, _, _, _)
ChainLeadsTo(highlights, x, id, n) ==
    IF x = id THEN TRUE
    ELSE IF x = NoId \/ n = 0 THEN FALSE
    ELSE ChainLeadsTo(highlights, ParentOf(highlights, x), id, n - 1)

\* C9: deleteHighlight(id) writes back the array it read without the record
\* with that id and without every record whose parentId chain leads back to
\* it, the other records unchanged and in order; and that array becomes the
\* Store.
C9_CascadeDelete ==
    [][\A s \in Slots :
        /\ (ops[s].kind = "deleteHighlight" /\ ops[s].pc = "get" /\ ops'[s].pc = "set") =>
              ops'[s].val = SelectSeq(store, LAMBDA h :
                                ~ChainLeadsTo(store, h.id, ops[s].arg, Len(store)))
        /\ (ops[s].kind = "deleteHighlight" /\ ops[s].pc = "set" /\ ops'[s].pc = "idle") =>
              store' = ops[s].val
      ]_vars

\* A with child B with child C was stored and deleteHighlight(A) removed all three
C9_Witness ==
    \E s \in Slots :
        /\ ops[s].kind = "deleteHighlight"
        /\ ops[s].pc = "set"
        /\ Len(store) = 3
        /\ store[2].parentId = store[1].id
        /\ store[3].parentId = store[2].id
        /\ ops[s].arg = store[1].id
        /\ ops[s].val = <<>>

\* C10: once the context is invalid no Store call rejects, every read that
\* returns yields an empty result, and the stored array does not change.
C10_ToleratesInvalidation ==
    [][~ctxValid' =>
          /\ ret'.status # "rejected"
          /\ store' = store
          /\ \A s \in Slots :
                (ops[s].kind \in Reads /\ ops'[s].kind = "idle") => ret'.empty
      ]_vars

\* the stored highlights a restore fetch for url hands to tryRestore
Restorable(url) ==
    SelectSeq(ByUrl(store, url), LAMBDA hl : hl.sourceTurnIndex > 0 /\ hl.responseHTML # Null)

\* the source article of hl and its markdown are rendered
SourceRendered(hl) ==
    hl.sourceTurnIndex \in DOMAIN turns /\ turns[hl.sourceTurnIndex] = "ai"

\* wrapper array g is made in this step by a restore in the page
RestoredInPage(g) ==
    /\ spans[g].state = "none"
    /\ spans'[g].state = "wrapped"
    /\ spans'[g].home = NoPopup
    /\ spans'[g].done

\* C11: whenever a restore wraps a stored highlight in the page, the Store
\* record of that highlight is top-level and its recorded location is the
\* location the page has at that moment, and the turns hidden in that step are
\* question/answer turns recorded for the highlights wrapped in it.
C11_RestoreCurrentPage ==
    [][/\ \A g \in Groups :
            RestoredInPage(g) =>
                \E i \in DOMAIN store :
                    /\ store[i].id = spans'[g].id
                    /\ store[i].parentId = NoId
                    /\ store[i].url = location'
       /\ (\E g \in Groups : RestoredInPage(g)) =>
            hidden' \ hidden \subseteq
                UNION {{store[i].questionIndex, store[i].responseIndex} :
                         i \in {j \in DOMAIN store :
                                  \E g \in Groups : /\ RestoredInPage(g)
                                                    /\ spans'[g].id = store[j].id
                                                    /\ store[j].url = location'}}
      ]_vars

\* what C12 asks of a run of tryRestore over the list remaining
SkipsUnfound(remaining, r) ==
    \A i \in DOMAIN remaining :
        LET hl == remaining[i]
        IN (/\ SourceRendered(hl)
            /\ ~completedHighlights[hl.id].present
            /\ hl.text.src # PageMarkup(page)) =>
               /\ ~completedHighlights'[hl.id].present
               /\ \A g \in Groups : spans'[g] # spans[g] => spans'[g].id # hl.id
               /\ (hidden' \ hidden) \cap {hl.questionIndex, hl.responseIndex} = {}
               /\ \A k \in DOMAIN restores'[r].remaining :
                      restores'[r].remaining[k].id # hl.id
               /\ \A j \in DOMAIN remaining :
                      (/\ SourceRendered(remaining[j])
                       /\ ~completedHighlights[remaining[j].id].present
                       /\ remaining[j].text.src = PageMarkup(page)) =>
                          /\ completedHighlights'[remaining[j].id].present
                          /\ \E g \in Groups : /\ RestoredInPage(g)
                                               /\ spans'[g].id = remaining[j].id

\* C12: a run of tryRestore (in the then-callback of the fetch, or from its
\* retry timer) skips a highlight whose text the rendered source turn does not
\* contain: no span and no completedHighlights entry for it, its turns not
\* hidden, not kept for a retry; and the findable highlights of the same list
\* are restored in the same run.
C12_SkipsUnfoundText ==
    [][/\ \A s \in Slots :
            (/\ ops[s].kind = "getHighlightsByUrl" /\ ops[s].cb
             /\ ops'[s].kind = "idle"
             /\ Restorable(ops[s].arg) # <<>>) =>
                \E r \in Restores : /\ restores[r].state = "none"
                                    /\ restores'[r].state = "live"
                                    /\ SkipsUnfound(Restorable(ops[s].arg), r)
       /\ \A r \in Restores :
            (restores[r].timer /\ restores'[r].attempts = restores[r].attempts + 1) =>
                SkipsUnfound(restores[r].remaining, r)
      ]_vars

\* a run of tryRestore has skipped the edited highlight 1 and restored 2
C12_Witness ==
    /\ store[1].text.src = Edited
    /\ page = 1
    /\ ~completedHighlights[1].present
    /\ completedHighlights[2].present
    /\ \E g \in Groups : spans[g].state = "wrapped" /\ spans[g].id = 2
    /\ 3 \notin hidden
    /\ \E r \in Restores : /\ restores[r].state = "live"
                           /\ restores[r].attempts > 0
                           /\ restores[r].remaining = <<>>

\* C13: a history change to another conversation closes every popup, unwraps
\* the spans of every completedHighlights entry, empties the map, and leaves
\* the Store as it was.
C13_NavigateClears ==
    [][(navs' = navs + 1 /\ location' # lastKnownUrl) =>
          /\ activePopup' = NoPopup
          /\ popupStack' = <<>>
          /\ \A p \in Popups : popups'[p].state # "mounted"
          /\ \A i \in Ids : ~completedHighlights'[i].present
          /\ \A i \in Ids :
                (completedHighlights[i].present /\ completedHighlights[i].spans \in Groups) =>
                    spans'[completedHighlights[i].spans].state = "unwrapped"
          /\ store' = store
      ]_vars

\* the entry pushPopupState would push in this state
TopEntry == [popup |-> activePopup, sourceHighlights |-> activeSourceHighlights,
             highlightId |-> activeHighlightId]

\* C14: a step that opens a popup from the open popup P appends P's entry
\* (element, spans, highlight id) to the stack and leaves P mounted; and in
\* every state with a parent on the stack, closing the top popup (the Escape
\* handler) removes that popup only and makes the top entry's popup, spans and
\* highlight id the active ones, the stack one entry shorter.
C14_StackPushPop ==
    /\ [](\A n \in 1..MaxPopups :
            (activePopup # NoPopup /\ Len(popupStack) = n /\ ~removePopup(Cur).ovf) =>
                LET d == Caught(removePopup(Cur))
                IN /\ ~removePopup(Cur).err
                   /\ d.popups = [popups EXCEPT ![activePopup].state = "removed"]
                   /\ d.activePopup = popupStack[n].popup
                   /\ d.popups[d.activePopup].state = "mounted"
                   /\ d.activeSourceHighlights = popupStack[n].sourceHighlights
                   /\ d.activeHighlightId = popupStack[n].highlightId
                   /\ d.popupStack = SubSeq(popupStack, 1, n - 1))
    /\ [][Len(popupStack') > Len(popupStack) =>
            LET P == popupStack'[Len(popupStack')].popup
            IN /\ Len(popupStack') = Len(popupStack) + 1
               /\ popups'[P].state = "mounted"
               /\ activePopup' \notin {NoPopup, P}
               /\ popups[activePopup'].state = "none"
               /\ activePopup = P => popupStack' = Append(popupStack, TopEntry)
         ]_vars

\* C15: in every state with a popup open, the handlers of a press outside
\* every popup and every live marker leave no popup mounted, no active popup,
\* an empty stack and no active highlight id.
C15_ClickOutsideDismissesAll ==
    (/\ activePopup # NoPopup \/ Len(popupStack) > 0
     /\ ~documentMousedown(Cur, NoSpans).ovf) =>
        LET d == Caught(removeAllPopups(Caught(documentMousedown(Cur, NoSpans))))
        IN /\ \A p \in Popups : d.popups[p].state # "mounted"
           /\ d.activePopup = NoPopup
           /\ d.popupStack = <<>>
           /\ d.activeHighlightId = NoId

\* the position of popup p in the stack, 0 when it is not on it
StackIndex(p) ==
    IF \E i \in DOMAIN popupStack : popupStack[i].popup = p
    THEN CHOOSE i \in DOMAIN popupStack : popupStack[i].popup = p
    ELSE 0

\* C16: in every state, a press on a popup p of the stack (whatever made it)
\* while a descendant is open closes the popups above p and makes p active
\* with its pushed spans and id; but a press on a wrapped span of the active
\* level lying in p closes nothing.
C16_PressOnAncestor ==
    \A p \in Popups :
        (StackIndex(p) # 0 /\ activePopup \notin {NoPopup, p}) =>
            \A g \in {NoSpans} \cup {x \in Groups : InDocument(Cur, x) /\ spans[x].home = p} :
                IF g # NoSpans /\ g = activeSourceHighlights
                THEN popupMousedown(Cur, p, g) = Cur
                ELSE ~popupMousedown(Cur, p, g).ovf =>
                        LET d == Caught(popupMousedown(Cur, p, g))
                            i == StackIndex(p)
                        IN /\ d.activePopup = p
                           /\ d.popups[p].state = "mounted"
                           /\ d.activeSourceHighlights = popupStack[i].sourceHighlights
                           /\ d.activeHighlightId = popupStack[i].highlightId
                           /\ d.popupStack = SubSeq(popupStack, 1, i - 1)
                           /\ \A q \in Popups \ {p} :
                                 (popups[q].state = "mounted"
                                    /\ (StackIndex(q) = 0 \/ StackIndex(q) > i)) =>
                                        d.popups[q].state = "removed"


\* C17: when the host's chat input cannot be found, a send leaves the popup
\* in Input, leaves no Response Watch running, and no host turn is hidden
\* (captured) afterwards.
C17_SendAbortsWithoutInput ==
    ~injectAndSend =>
        /\ \A p \in Popups : popups[p].state = "mounted" => popups[p].mode = "input"
        /\ \A w \in Watches : watches[w].state # "running"
        /\ hidden = {}

\* C18: a popup whose selection was wrapped into no markers can be dismissed
\* in every state it goes through (Input, Loading, answer shown, timed out):
\* the dismissal raises no uncaught failure and removes the popup.
C18_NoMarkersStillDismissed ==
    (/\ activePopup # NoPopup
     /\ popups[activePopup].kind \in {"fresh", "chained"}
     /\ popups[activePopup].wrappers = NoSpans) =>
        LET d == removePopup(Cur)
        IN d.ovf \/ (~d.err /\ d.popups[activePopup].state = "removed")

\* C19: for every non-collapsed Range over the text nodes of a container,
\* highlightRange followed by removeSourceHighlight on the spans it returned
\* leaves the container's textContent as it was, no text node inside a span,
\* and no empty text node in the container.
C19_WrapUnwrapRestores ==
    (wrapPhase = "unwrapped" /\ range.start # range.end) =>
        /\ textContent(nodes) = textBefore
        /\ \A i \in DOMAIN nodes : nodes[i].span = 0
        /\ \A i \in DOMAIN nodes : nodes[i].parent # 0 => nodes[i].data # <<>>

\* a Range from offset 0 of the first text node over all MaxNodes text nodes,
\* some of them in the inner element, wrapped into MaxNodes spans and unwrapped
C19_Witness ==
    /\ wrapPhase = "unwrapped"
    /\ range.start = [node |-> 1, offset |-> 0]
    /\ Len(wrappers) = MaxNodes
    /\ \E i \in DOMAIN nodes : nodes[i].parent = 2

WidthInBounds(w, viewport) == MIN_WIDTH <= w /\ w <= viewport - 32

C30_WidthBounds ==
    [][/\ (drag # NoDrag /\ drag'.moved) =>
              WidthInBounds(popupStyle'.width, innerWidth')
       /\ customPopupWidthL1' # customPopupWidthL1 =>
              WidthInBounds(customPopupWidthL1', innerWidth')
       /\ customPopupWidthChained' # customPopupWidthChained =>
              WidthInBounds(customPopupWidthChained', innerWidth')]_vars

(***************************************************************************)
(* The sentence extractor and the context renderer: SpecExtract.           *)
(***************************************************************************)
\* the leaf blocks the selection touches, and the text of a leaf block
Touched == selectedBlocks(container, selRange)
TextOf(path) == blockTextContent(LeafAt(container, path).segs)
InOneBlock == selRange.startLeaf = selRange.endLeaf
Extracted == stage = "extracted"

\* C22: a selection inside a single code block yields the entire trimmed
\* text of the block as the context, wherever sentence terminators occur.
C22_CodeBlockWhole ==
    (Extracted /\ InOneBlock /\ LeafAt(container, Touched[1]).tag = "PRE") =>
        /\ ~context.null
        /\ context.sentence = trim(TextOf(Touched[1]))
        /\ context.blockTypes = <<>>

\* a selection after a terminator inside a code block: the context begins
\* before the terminator
C22_Witness ==
    /\ stage = "extracted"
    /\ InOneBlock
    /\ LeafAt(container, Touched[1]).tag = "PRE"
    /\ selRange.startIn
    /\ \E i \in 1..selRange.startOffset : TextOf(Touched[1])[i] \in SENTENCE_TERMINATORS
    /\ \E i \in 1..(Len(context.sentence) - 1) : context.sentence[i] \in SENTENCE_TERMINATORS

\* the bounds of the sentence around offsets from..to of a text: after the
\* last terminator before from (0 for none), and with the first terminator
\* at or after to (the end for none)
SentenceFrom(text, from) ==
    LET before == {i \in 1..from : text[i] \in SENTENCE_TERMINATORS}
    IN IF before = {} THEN 0 ELSE CHOOSE i \in before : \A j \in before : j <= i

SentenceTo(text, to) ==
    LET after == {i \in (to + 1)..Len(text) : text[i] \in SENTENCE_TERMINATORS}
    IN IF after = {} THEN Len(text) ELSE CHOOSE i \in after : \A j \in after : i <= j

\* the offsets of a block's text that are characters of a citation pill
PillOffsets(segs) ==
    {o \in 0..(Len(blockTextContent(segs)) - 1) :
        \E k \in DOMAIN segs : /\ segs[k].kind = "pill"
                               /\ RawBefore(segs, k) <= o
                               /\ o < RawBefore(segs, k + 1)}

\* the selection is inside one block that is no code block
InProse ==
    /\ InOneBlock
    /\ selRange.startIn
    /\ selRange.endIn
    /\ LeafAt(container, Touched[1]).tag # "PRE"

\* the sentence of the selection in its block: where it begins and ends in
\* the block's text, without the white space at its ends
SentenceBegin ==
    LET text == TextOf(Touched[1])
        from == SentenceFrom(text, selRange.startOffset)
        to == SentenceTo(text, selRange.endOffset)
        raw == slice(text, from, to)
    IN from + (Len(raw) - Len(trimStart(raw)))

SentenceOf ==
    LET text == TextOf(Touched[1])
    IN trim(slice(text, SentenceFrom(text, selRange.startOffset),
                  SentenceTo(text, selRange.endOffset)))

\* the characters at the start of the sentence that are citation pills or
\* white space after a citation pill
LeadingCitation ==
    LET pillAt == PillOffsets(LeafAt(container, Touched[1]).segs)
        sent == SentenceOf
        lead(k) == \A i \in 1..k : \/ (SentenceBegin + i - 1) \in pillAt
                                   \/ sent[i] \in WhiteSpace
        ks == {k \in 0..Len(sent) : lead(k)}
    IN IF sent = <<>> \/ SentenceBegin \notin pillAt THEN 0
       ELSE CHOOSE k \in ks : \A j \in ks : j <= k

SelectedChars ==
    trim(slice(TextOf(Touched[1]), selRange.startOffset, selRange.endOffset))

\* C21 as stated: for a selection inside one block that is no code block,
\* the extracted sentence is the trimmed text from after the nearest
\* terminator before the selection start to the nearest terminator at or
\* after the selection end, and it contains the selected text.
C21_SentenceAsStated ==
    (Extracted /\ InProse) =>
        /\ ~context.null
        /\ context.sentence = SentenceOf
        /\ indexOf(context.sentence, SelectedChars) # -1

\* C21, amended: the extracted sentence is that trimmed text without the
\* citation pills at its start and the white space after them (no context
\* when nothing is left); it contains the selected text when the
\* selection starts after what was removed.
C21_SentenceAfterCitations ==
    (Extracted /\ InProse) =>
        LET rest == slice(SentenceOf, LeadingCitation, Len(SentenceOf))
        IN /\ context.sentence = rest
           /\ context.null <=> rest = <<>>
           /\ selRange.startOffset >= SentenceBegin + LeadingCitation =>
                 indexOf(context.sentence, SelectedChars) # -1

\* a selection after a terminator, in a sentence that begins with a citation
\* pill: the context is the sentence without the pill
C21_Witness ==
    /\ stage = "extracted"
    /\ InProse
    /\ SentenceFrom(TextOf(Touched[1]), selRange.startOffset) > 0
    /\ LeadingCitation > 0
    /\ selRange.startOffset >= SentenceBegin + LeadingCitation
    /\ context.sentence # <<>>
    /\ Len(context.sentence) > Len(SelectedChars)

\* the selection touches several leaf blocks
InSeveral == selRange.startLeaf < selRange.endLeaf

\* what the k-th touched block has to contribute: from the sentence of the
\* selection start in the first block when sentenceFirst, to the sentence
\* of the selection end in the last block when sentenceLast, trimmed
Candidate(k, sentenceFirst, sentenceLast) ==
    LET text == TextOf(Touched[k])
        from == IF k = 1 /\ sentenceFirst /\ selRange.startIn
                THEN SentenceFrom(text, selRange.startOffset) ELSE 0
        to == IF k = Len(Touched) /\ sentenceLast /\ selRange.endIn
              THEN SentenceTo(text, selRange.endOffset) ELSE Len(text)
    IN [text |-> trim(slice(text, from, to)),
        begin |-> from + (Len(slice(text, from, to)) - Len(trimStart(slice(text, from, to))))]

\* the characters at the start of a candidate that are citation pills or
\* white space after a citation pill
LeadingCitationOf(k, cand) ==
    LET pillAt == PillOffsets(LeafAt(container, Touched[k]).segs)
        lead(n) == \A i \in 1..n : \/ (cand.begin + i - 1) \in pillAt
                                   \/ cand.text[i] \in WhiteSpace
        ns == {n \in 0..Len(cand.text) : lead(n)}
    IN IF cand.text = <<>> \/ cand.begin \notin pillAt THEN 0
       ELSE CHOOSE n \in ns : \A j \in ns : j <= n

NonEmpty(texts) == SelectSeq(texts, LAMBDA t : t # <<>>)

\* C23 as stated: the extracted text of a selection touching several leaf
\* blocks is the first block from the sentence of the selection start, the
\* blocks between in full, and the last block to the sentence of the
\* selection end, each trimmed, joined by one newline.
C23_JoinedAsStated ==
    (Extracted /\ InSeveral) =>
        context.sentence =
            join(NonEmpty([k \in DOMAIN Touched |-> Candidate(k, TRUE, TRUE).text]))

\* C23, amended: a first or last block that is a code block contributes in
\* full, and the citation pills at the start of the first contribution (and
\* the white space after them) are removed, a block of which nothing is
\* left contributing nothing.
Contribution(k) ==
    LET code(j) == LeafAt(container, Touched[j]).tag = "PRE"
        cand(j) == Candidate(j, ~code(j), ~code(j))
        rest(j) == slice(cand(j).text, LeadingCitationOf(j, cand(j)), Len(cand(j).text))
    IN IF \A j \in 1..(k - 1) : rest(j) = <<>> THEN rest(k) ELSE cand(k).text

C23_JoinedContributions ==
    (Extracted /\ InSeveral /\ \E k \in DOMAIN Touched : Contribution(k) # <<>>) =>
        /\ ~context.null
        /\ context.sentence = join(NonEmpty([k \in DOMAIN Touched |-> Contribution(k)]))
        /\ Len(context.blockTypes) = Len(NonEmpty([k \in DOMAIN Touched |-> Contribution(k)]))

\* a selection from the second sentence of one block, over a block with
\* white space at its ends, to the first sentence of a third block
C23_Witness ==
    /\ stage = "extracted"
    /\ Len(Touched) = 3
    /\ Candidate(1, TRUE, TRUE).begin > 0
    /\ Len(TextOf(Touched[2])) > Len(trim(TextOf(Touched[2])))
    /\ Len(Candidate(3, TRUE, TRUE).text) < Len(TextOf(Touched[3]))
    /\ Len(split(context.sentence)) >= 3

RECURSIVE SumLineCounts(_)
SumLineCounts(types) ==
    IF types = <<>> THEN 0 ELSE Head(types).lineCount + SumLineCounts(Tail(types))

\* C24: for every Context with block metadata, the lineCounts sum to the
\* number of lines of the text, the renderer's block list has one block
\* for each descriptor, and its blocks joined by single newlines are the
\* text.
C24_LineCountRoundTrip ==
    (Extracted /\ ~context.null /\ context.blockTypes # <<>>) =>
        LET lines == split(context.sentence)
            blockList == blockListOf(lines, context.blockTypes, 0)
        IN /\ SumLineCounts(context.blockTypes) = Len(lines)
           /\ Len(blockList) = Len(context.blockTypes)
           /\ \A k \in DOMAIN blockList :
                 /\ lineCount(blockList[k].text) = context.blockTypes[k].lineCount
                 /\ blockList[k].meta = context.blockTypes[k]
           /\ join([k \in DOMAIN blockList |-> blockList[k].text]) = context.sentence

\* a Context of two blocks, the first of two lines
C24_Witness ==
    /\ stage = "extracted"
    /\ Len(context.blockTypes) = 2
    /\ context.blockTypes[1].lineCount = 2
    /\ Len(split(context.sentence)) = 3

\* the text of block k of a Context, as the renderer cuts it from rawText
BlockTextOfContext(k) ==
    blockListOf(split(context.sentence), context.blockTypes, 0)[k].text

IntervalInside(iv, len) == 0 <= iv.start /\ iv.start < iv.end /\ iv.end <= len

\* C25: in every extracted Context, every citation interval and every bold
\* interval of every block satisfies 0 <= start < end <= length of the
\* block's text.
C25_IntervalsInsideBlock ==
    (Extracted /\ ~context.null) =>
        \A k \in DOMAIN context.blockTypes :
            /\ \A p \in DOMAIN context.blockTypes[k].pills :
                  IntervalInside(context.blockTypes[k].pills[p], Len(BlockTextOfContext(k)))
            /\ \A b \in DOMAIN context.blockTypes[k].bolds :
                  IntervalInside(context.blockTypes[k].bolds[b], Len(BlockTextOfContext(k)))

\* intervals in order that neither overlap nor touch, and that do not overlap
Apart(ivs) == \A i, j \in DOMAIN ivs : i < j => ivs[i].end < ivs[j].start
Disjoint(ivs) == \A i, j \in DOMAIN ivs : i < j => ivs[i].end <= ivs[j].start

FirstBlockBegin(k) ==
    LET code == LeafAt(container, Touched[k]).tag = "PRE"
        cand == IF InSeveral THEN Candidate(k, ~code, ~code)
                ELSE [text |-> SentenceOf, begin |-> SentenceBegin]
    IN cand.begin + LeadingCitationOf(k, cand)

\* the touched block the first block of the Context came from
FirstContributor ==
    CHOOSE k \in DOMAIN Touched :
        /\ Contribution(k) # <<>>
        /\ \A j \in 1..(k - 1) : Contribution(j) = <<>>

\* the offsets of a block's text that are characters of bold text
BoldOffsets(segs) ==
    {o \in 0..(Len(blockTextContent(segs)) - 1) :
        \E k \in DOMAIN segs : /\ segs[k].kind = "bold"
                               /\ RawBefore(segs, k) <= o
                               /\ o < RawBefore(segs, k + 1)}

Covered(ivs, len) == {o \in 0..(len - 1) : \E i \in DOMAIN ivs : ivs[i].start <= o /\ o < ivs[i].end}

\* C27: in every extracted Context no citation interval of the first block
\* starts at offset 0, and the citation and bold intervals of the first
\* block cover the characters of its text that are characters of citation
\* pills and of bold text of the block it was cut from.
C27_NoLeadingCitation ==
    (Extracted /\ ~context.null /\ context.blockTypes # <<>>) =>
        LET first == context.blockTypes[1]
            k == IF InSeveral THEN FirstContributor ELSE 1
            segs == LeafAt(container, Touched[k]).segs
            begin == FirstBlockBegin(k)
            len == Len(BlockTextOfContext(1))
        IN /\ \A p \in DOMAIN first.pills : first.pills[p].start > 0
           /\ Covered(first.pills, len)
                 = {o \in 0..(len - 1) : (begin + o) \in PillOffsets(segs)}
           /\ Covered(first.bolds, len)
                 = {o \in 0..(len - 1) : (begin + o) \in BoldOffsets(segs)}

\* a sentence that began with two citation pills: both were stripped and the
\* bold interval after them was re-based
C27_Witness ==
    /\ stage = "extracted"
    /\ InProse
    /\ LET segs == LeafAt(container, Touched[1]).segs
       IN /\ Len(segs) = 3
          /\ segs[1].kind = "pill" /\ segs[2].kind = "pill" /\ segs[3].kind = "bold"
    /\ Len(context.blockTypes) = 1
    /\ context.blockTypes[1].pills = <<>>
    /\ context.blockTypes[1].bolds # <<>>
    /\ context.blockTypes[1].bolds[1].start = 0

\* the number a browser gives the n-th LI of a list element: the start
\* attribute for the first, one more for each LI after it
ordinalOf(list, n) == list.start + n - 1

\* the style sheet: an LI with the class jr-li-cont shows no marker
showsMarker(item) == ~item.cont

\* the selection touches several blocks, all of them in an ordered list
InOrderedList ==
    /\ InSeveral
    /\ \A k \in DOMAIN Touched : container[Touched[k][1]].list = "ol"

\* C28: for a selection over items i..j of an ordered list the Context
\* records for every block the position of its item among the LI siblings;
\* the rendered list is one OL in which every number shown is the position
\* of the item its block came from, and every item after the first shows
\* exactly one number, also when an item contributes more than one block.
C28_OrdinalsPreserved ==
    (stage = "rendered" /\ InOrderedList) =>
        /\ Len(context.blockTypes) = Len(Touched)
        /\ \A k \in DOMAIN Touched :
              /\ context.blockTypes[k].listType = "ol"
              /\ context.blockTypes[k].listStart = Touched[k][2]
        /\ Len(rendered) = 1
        /\ rendered[1].el = "ol"
        /\ Len(rendered[1].items) = Len(Touched)
        /\ \A n \in DOMAIN rendered[1].items :
              showsMarker(rendered[1].items[n]) =>
                  ordinalOf(rendered[1], n) = Touched[n][2]
        /\ \A m \in (Touched[1][2] + 1)..Touched[Len(Touched)][2] :
              Cardinality({n \in DOMAIN rendered[1].items :
                              /\ showsMarker(rendered[1].items[n])
                              /\ Touched[n][2] = m}) = 1

\* the text inside jr-popup-mark spans of one rendered item, and of the
\* whole rendered context, the items of which are lines
RECURSIVE MarkedOf(_)
MarkedOf(segs) ==
    IF segs = <<>> THEN <<>>
    ELSE (IF Head(segs).mark THEN Head(segs).text ELSE <<>>) \o MarkedOf(Tail(segs))

MarkedText ==
    LET items == Concat([e \in DOMAIN rendered |-> rendered[e].items])
    IN join(NonEmpty([n \in DOMAIN items |-> MarkedOf(items[n].segs)]))

Occurs(sentence, text) ==
    \/ indexOf(sentence, text) # -1
    \/ indexOf(collapseWhiteSpace(sentence), collapseWhiteSpace(text)) # -1

\* C29: when the selected text occurs in the context text, literally or
\* after whitespace normalization, the marked text of the rendered context
\* is the selected text up to whitespace normalization; when it does not
\* occur, nothing is marked.
C29_MarkIsSelection ==
    (stage = "rendered" /\ ~context.null /\ context.sentence # <<>>) =>
        IF Occurs(context.sentence, selText)
        THEN collapseWhiteSpace(MarkedText) = collapseWhiteSpace(selText)
        ELSE MarkedText = <<>>

\* what a poll tick of w writes in its closure: the tick counter, the turns it
\* found, and how it ended
Polled(w) ==
    <<watches[w].attempts, watches[w].questionTurn, watches[w].responseTurn,
      watches[w].state, watches[w].outcome, watches[w].hlId>>

\* the highlights of watch w: the id drawn at its detach and the id of its capture
HighlightsOf(w) == {watches[w].detachedHlId, watches[w].hlId} \ {NoId}

\* highlight i is Completed: registered with its answer
Completed(i) ==
    completedHighlights[i].present /\ completedHighlights[i].responseHTML # Null

\* C31: a watch ends at most once: once it has captured, timed out or been
\* fully cancelled, its outcome stays and no later step is a poll tick of it
\* (nothing a tick writes changes); a capture and a timeout are never the
\* outcome of one watch; and the poll tick in which a watch times out removes
\* or changes no Completed highlight of that watch.
C31_OneTerminalOutcome ==
    [][\A w \in Watches :
        /\ watches[w].outcome # "none" => Polled(w)' = Polled(w)
        /\ watches[w].state = "stopped" => watches[w].outcome # "none"
        /\ TimedOut(w) =>
              /\ watches[w].outcome = "none"
              /\ watches'[w].hlId = NoId
              /\ \A i \in HighlightsOf(w) :
                     Completed(i) => completedHighlights'[i] = completedHighlights[i]
        /\ Captured(w) => watches[w].outcome = "none"
      ]_vars

C31_Witness ==
    \E w, v \in Watches :
        /\ watches[w].outcome = "captured"
        /\ watches[w].detached
        /\ Completed(watches[w].hlId)
        /\ watches[v].outcome = "timeout"
        /\ watches[v].detached
        /\ watches[v].detachedHlId # NoId
        /\ ~completedHighlights[watches[v].detachedHlId].present

\* the open popup has not sent a question: it still shows its input row
NotSent == activePopup # NoPopup /\ popups[activePopup].mode = "input"

\* the open popup is bound to a Completed highlight: the active markers carry
\* the id of a highlight registered with its answer
BoundToCompleted ==
    /\ activePopup # NoPopup
    /\ activeSourceHighlights # NoSpans
    /\ spans[activeSourceHighlights].id # NoId
    /\ Completed(spans[activeSourceHighlights].id)

\* C32: in every state, dismissing (removePopup) an open popup that has not
\* sent a question removes it, leaves its markers unwrapped and leaves no
\* completedHighlights entry holding them; and dismissing an open popup bound
\* to a Completed highlight removes it and leaves the markers of that
\* highlight (wrapped, with the done class and the id) and its
\* completedHighlights entry as they were.
C32_DismissByState ==
    /\ NotSent =>
          LET d == removePopup(Cur)
              g == activeSourceHighlights
          IN /\ d.popups[activePopup].state = "removed"
             /\ g # NoSpans => d.spans[g].state = "unwrapped"
             /\ \A i \in Ids : d.completedHighlights[i].present =>
                    /\ completedHighlights[i].present
                    /\ g # NoSpans => d.completedHighlights[i].spans # g
    /\ BoundToCompleted =>
          LET d == removePopup(Cur)
              g == activeSourceHighlights
          IN /\ d.popups[activePopup].state = "removed"
             /\ d.spans[g] = spans[g]
             /\ d.completedHighlights[spans[g].id] = completedHighlights[spans[g].id]

\* the leafWalker loop has run over the elements
Walked == walkStage = "walked"

\* the selected blocks, as a set
Selected == {leafBlocks[i] : i \in DOMAIN leafBlocks}

\* the selected blocks whose textContent holds the text node of element e
ContributorsOf(e) == {n \in Selected : n = e \/ IsInside(elements, e, n)}

\* C33: every block the leafWalker loop selects has no block-level element
\* below it at any depth, no selected block lies inside another one, and the
\* text of no element is part of the textContent of two selected blocks.
C33_LeafBlocksOnly ==
    Walked =>
        /\ \A n \in Selected :
               /\ elements[n].tag \in BLOCK_TAGS
               /\ \A m \in DOMAIN elements :
                      IsInside(elements, m, n) => elements[m].tag \notin BLOCK_TAGS
        /\ \A n, m \in Selected : ~IsInside(elements, m, n)
        /\ \A e \in DOMAIN elements : Cardinality(ContributorsOf(e)) <= 1

\* the context blockquote has been filled
Rendered == stage = "rendered"

\* the touched blocks that contribute a fragment to the Context, in order
Contributors ==
    IF InOneBlock THEN IF context.null THEN <<>> ELSE <<1>>
    ELSE SelectSeq([k \in DOMAIN Touched |-> k], LAMBDA k : Contribution(k) # <<>>)

\* the fragment of touched block k begins in the first sentence of the block
InFirstSentence(k) ==
    (k = 1 /\ selRange.startIn) => SentenceFrom(TextOf(Touched[k]), selRange.startOffset) = 0

\* touched blocks j and k belong to the same LI
SameItem(j, k) == Touched[j][1] = Touched[k][1] /\ Touched[j][2] = Touched[k][2]

\* the n-th fragment is the first sentence of the first child block of its
\* LI, and no fragment before it belongs to that LI
OpensItem(n) ==
    LET k == Contributors[n]
    IN /\ container[Touched[k][1]].list # "none"
       /\ Touched[k][3] = 1
       /\ InFirstSentence(k)
       /\ \A i \in 1..(n - 1) : ~SameItem(Contributors[i], k)

\* the n-th fragment is tagged list-item in the Context
TaggedItem(n) == n \in DOMAIN context.blockTypes /\ context.blockTypes[n].tag = "LI"

\* the items of the rendered elements, in order, each with its element
RenderedItems ==
    Concat([e \in DOMAIN rendered |->
              [i \in DOMAIN rendered[e].items |->
                 [el |-> rendered[e].el, item |-> rendered[e].items[i]]]])

\* the n-th fragment is rendered as a list item with a marker of its own
HasMarker(n) ==
    /\ n \in DOMAIN RenderedItems
    /\ RenderedItems[n].el \in {"ol", "ul"}
    /\ showsMarker(RenderedItems[n].item)

\* C34: in every rendered Context, of one block or of several, a fragment is
\* tagged list-item and rendered with a marker of its own exactly when it is
\* the first sentence of the first child block of its LI and no earlier
\* fragment belongs to that LI; no other fragment has a marker.
C34_MarkerOnlyOnFirst ==
    Rendered =>
        \A n \in DOMAIN Contributors :
            /\ TaggedItem(n) <=> OpensItem(n)
            /\ HasMarker(n) <=> OpensItem(n)

\* findTextRange has returned
Found == findStage = "found"

\* the offsets of the concatenated node text at which the search text occurs
Occurrences ==
    LET full == Concat(textNodes)
    IN {at \in 0..(Len(full) - Len(searchText)) :
          \A k \in 1..Len(searchText) : full[at + k] = searchText[k]}

\* Range.toString() of the Range from (startNode, startOffset) to
\* (endNode, endOffset): the characters of the text nodes between the two
\* boundary points
RangeString(r) ==
    IF r.startNode = r.endNode
    THEN SubSeq(textNodes[r.startNode], r.startOffset + 1, r.endOffset)
    ELSE SubSeq(textNodes[r.startNode], r.startOffset + 1, Len(textNodes[r.startNode]))
           \o Concat(SubSeq(textNodes, r.startNode + 1, r.endNode - 1))
           \o SubSeq(textNodes[r.endNode], 1, r.endOffset)

\* the boundary points of r are points of the text nodes, the start not
\* after the end
WellFormed(r) ==
    /\ r.startNode \in DOMAIN textNodes
    /\ r.endNode \in DOMAIN textNodes
    /\ r.startOffset \in 0..Len(textNodes[r.startNode])
    /\ r.endOffset \in 0..Len(textNodes[r.endNode])
    /\ \/ r.startNode < r.endNode
       \/ r.startNode = r.endNode /\ r.startOffset <= r.endOffset

\* C35: for every sequence of text nodes and every non-empty search text,
\* findTextRange returns null exactly when the text does not occur in the
\* concatenated node text, and otherwise a Range whose string is the search
\* text and whose start is the first occurrence.
C35_FindsFirstOccurrence ==
    Found =>
        IF Occurrences = {} THEN foundRange.null
        ELSE /\ ~foundRange.null
             /\ WellFormed(foundRange)
             /\ RangeString(foundRange) = searchText
             /\ Len(Concat(SubSeq(textNodes, 1, foundRange.startNode - 1)))
                  + foundRange.startOffset = Lowest(Occurrences)

\* the text occurs twice; the first occurrence begins on a node boundary
\* after an empty text node, spans two nodes and ends on a node boundary
C35_Witness ==
    /\ Found
    /\ Cardinality(Occurrences) > 1
    /\ ~foundRange.null
    /\ foundRange.startNode > 1
    /\ textNodes[foundRange.startNode - 1] = <<>>
    /\ foundRange.startOffset = 0
    /\ foundRange.startNode < foundRange.endNode
    /\ foundRange.endOffset = Len(textNodes[foundRange.endNode])
    /\ foundRange.endNode < Len(textNodes)


\* the sentences the selection touches in its block: from after the last
\* terminator before the first selected character to the first terminator
\* at or after the last selected character, trimmed
TouchedSentences ==
    LET text == TextOf(Touched[1])
    IN trim(slice(text, SentenceFrom(text, selRange.startOffset),
                  SentenceTo(text, selRange.endOffset - 1)))

\* C36: for a selection of one or more characters inside one block that is
\* no code block, the extracted context is the text from the start of the
\* first sentence the selection touches to the end of the last sentence it
\* touches (citation pills at its start left out), so it contains no
\* sentence of which no character was selected, also when the last
\* selected character is a sentence terminator.
C36_TouchedSentencesOnly ==
    (Extracted /\ InProse /\ selRange.startOffset < selRange.endOffset) =>
        \E k \in 0..Len(TouchedSentences) :
            context.sentence = slice(TouchedSentences, k, Len(TouchedSentences))


\* the host turns a Response Watch has taken: the one it hid as the injected
\* question and the one it took as the answer
TurnsOf(w) == {watches[w].questionTurn, watches[w].responseTurn} \ {0}

\* C37: no host turn is taken as the injected question or as the answer by
\* two different Response Watches.
C37_TurnOfOneWatch ==
    \A w1, w2 \in Watches :
        w1 # w2 => TurnsOf(w1) \cap TurnsOf(w2) = {}


(***************************************************************************)
(* Response Watches across a navigation: SpecLeave.  The sessions in which *)
(* highlightRange wraps every selection, the user selects and sends (a     *)
(* selection made while a popup is loading detaches its watch), the host   *)
(* page navigates once, every question is sent before it does, and the     *)
(* host unrenders the old conversation, renders the new one and goes on    *)
(* adding turns to it.                                                     *)
(***************************************************************************)
NextLeave ==
    \/ SelectText(TRUE)
    \/ navs = 0 /\ Send
    \/ \E w \in Watches : Poll(w)
    \/ \E u \in Urls : Navigate(u)
    \/ HostUnrender
    \/ HostRender
    \/ page # 0 /\ HostUserTurn
    \/ page # 0 /\ HostAiTurn
    \/ HostFinish
    \/ \E s \in Slots : GetResolves(s)
    \/ \E s \in Slots : SetResolves(s)

SpecLeave == Init /\ [][NextLeave]_vars

\* the host shows the conversation of a location navigated to
InNewConversation == location # 1 /\ page = location

\* this step is a poll tick of a Response Watch
PollTick == \E w \in Watches : watches'[w].attempts # watches[w].attempts

\* C38: after a navigation to a new conversation, a poll tick of a Response
\* Watch started before the navigation hides no turn of the new
\* conversation, registers no highlight in memory and starts no save of a
\* Store record under the new page location.
C38_WatchesEndWithNavigation ==
    [][(InNewConversation /\ PollTick) =>
          /\ hidden' \subseteq hidden
          /\ \A i \in Ids : completedHighlights'[i].present =>
                               completedHighlights[i].present
          /\ \A s \in Slots : (ops'[s] # ops[s] /\ ops'[s].kind = "saveHighlight") =>
                                 ops'[s].rec.url # location]_vars


\* the user can click a span of highlight i: it is registered in the map and
\* its wrapper spans are in the document, marked as done and carrying its id
Clickable(i) ==
    /\ completedHighlights[i].present
    /\ InDocument(Cur, completedHighlights[i].spans)
    /\ spans[completedHighlights[i].spans].done
    /\ spans[completedHighlights[i].spans].id = i

\* a popup of highlight i is open: the active one or one on the stack
PopupOpenFor(i) ==
    \/ activePopup # NoPopup /\ activeHighlightId = i
    \/ \E k \in DOMAIN popupStack : popupStack[k].highlightId = i

\* turn t is hidden for something the user can still reach: a watch that
\* is still running hid it, or it is the question or answer turn of a
\* captured highlight that is clickable or has an open popup
Referred(t) ==
    \E w \in Watches :
        /\ t \in TurnsOf(w)
        /\ \/ watches[w].state = "running"
           \/ /\ watches[w].outcome = "captured"
              /\ watches[w].hlId \in Ids
              /\ Clickable(watches[w].hlId) \/ PopupOpenFor(watches[w].hlId)

\* C39: every hidden host turn is tracked by a running Response Watch or is
\* the question or answer turn of a highlight that is registered with
\* clickable spans or has an open popup.
C39_HiddenTurnsReferred ==
    \A t \in hidden : Referred(t)


\* popup p is open for a highlight of watch w: the popup the question was
\* sent from, or a popup opened for the highlight by a click on its spans
BoundTo(p, w) ==
    /\ popups[p].state = "mounted"
    /\ \/ p = watches[w].popup
       \/ p = activePopup /\ activeHighlightId \in HighlightsOf(w)
       \/ \E k \in DOMAIN popupStack : /\ popupStack[k].popup = p
                                       /\ popupStack[k].highlightId \in HighlightsOf(w)

\* C40: once a Response Watch has captured or timed out, no open popup bound
\* to its highlight shows the loading indicator, a popup reopened for the
\* detached highlight while the watch was running included.
C40_NoLoadingAfterOutcome ==
    \A w \in Watches, p \in Popups :
        (watches[w].outcome \in {"captured", "timeout"} /\ BoundTo(p, w)) =>
            popups[p].mode # "loading"

====
